---- MODULE Spec2Model ----
(***************************************************************************)
(* State-machine model of the workflow graph engine                        *)
(* (api/core/workflow/graph_engine/graph_engine.py): GraphEngine.run, the  *)
(* driver loop GraphEngine._run, node execution GraphEngine._run_node,     *)
(* parallel dispatch GraphEngine._run_parallel_branches and the branch     *)
(* worker GraphEngine._run_parallel_node, with the bounded worker pool     *)
(* GraphEngineThreadPool.                                                   *)
(*                                                                         *)
(* A "driver" is one activation of _run: "main" is the activation started  *)
(* by run(); every parallel branch is an activation started in a pool      *)
(* thread by _run_parallel_node and is named by its parallel_start_node_id.*)
(* Every access to a shared object (node_run_steps, total_tokens, the      *)
(* handle_exceptions list, a dispatch queue, the event stream) is a step   *)
(* of its own, so that unsynchronised read-modify-write sequences of the   *)
(* code interleave as threads may interleave them.                         *)
(***************************************************************************)
EXTENDS Naturals, Integers, Sequences, FiniteSets, TLC

VARIABLES
    graph,                \* the graph config the engine was built with
    max_execution_steps,  \* GraphEngine.max_execution_steps
    max_submit_count,     \* GraphEngineThreadPool.max_submit_count
    max_workers,          \* the pool's max_workers (ThreadPoolExecutor)
    max_execution_time,   \* GraphEngine.max_execution_time: "short" or "long"
    node_run_steps,       \* graph_runtime_state.node_run_steps
    total_tokens,         \* graph_runtime_state.total_tokens
    timed_out,            \* _is_timed_out(start_at, max_execution_time)
    handle_exceptions,    \* the handle_exceptions list created by run()
    variable_pool,        \* graph_runtime_state.variable_pool: <<node_id, key>>
    outputs,              \* graph_runtime_state.outputs
    submit_count,         \* GraphEngineThreadPool.submit_count
    pool_registered,      \* thread_pool_id in workflow_thread_pool_mapping
    drv,                  \* every driver's position and locals
    q,                    \* q[d]: the queue of driver d's current dispatch
    stream,               \* the events run() has yielded
    run_pc,               \* position of run(): running, failed_seen, done
    emitted,              \* emitted[d]: the events driver d has yielded, in order
    run_calls,            \* run_calls[n]: the results of the calls of node n's run()
    carving,              \* the sub-graph carver of WorkflowBasedAppRunner
    publishing,           \* WorkflowAppQueueManager and its call of _publish
    generating,           \* AppGenerateService.generate and its rate limit
    overran               \* the nodes whose run() lasted longer than max_execution_time

vars == <<graph, max_workers, max_execution_steps, max_submit_count, max_execution_time, node_run_steps, total_tokens, timed_out,
          handle_exceptions, variable_pool, outputs, submit_count,
          pool_registered, drv, q, stream, run_pc, emitted, run_calls, carving,
          publishing, generating, overran>>

(***************************************************************************)
(* Bounds of the model and program constants.                              *)
(***************************************************************************)
\* Largest max_execution_steps tried with a linear chain.
MaxSteps == 3

\* Largest retry_config.max_retries tried with a retrying node.
MaxRetries == 2

\* thread_pool_max_workers of GraphEngine.__init__.
thread_pool_max_workers == 10

None == "none"

(***************************************************************************)
(* Graph configs.  A graph is named by a record [kind, len]; kind "chain"  *)
(* is a linear chain of len nodes, "fork" a fan-out of two branches that   *)
(* join in front of the end node, "nest" a fan-out of one branch and an    *)
(* edge straight to the join node, with a second fan-out of two branches   *)
(* inside the branch, "retry" a chain start -> api -> job -> end whose     *)
(* nodes api (an HTTP request) and job (a tool) retry up to len times,     *)
(* "risky" a chain whose nodes risky, gate and lone continue on error:     *)
(* risky with default values, gate with a success and a fail branch (to    *)
(* use and to rescue), lone with the fail-branch strategy and one edge     *)
(* without a condition (gate and lone are HTTP requests), "tails" a        *)
(* fan-out of two branches p and q that do not join: each is one answer    *)
(* node (len 0) or one end node (len 1),                                   *)
(* "cond" a node cond whose outgoing edges carry variable-predicate run    *)
(* conditions.  With len 0 its edges are, in config order, [if_error] to   *)
(* e1, [if_result] to a and [if_error] to e2; e1 and e2 join in front of   *)
(* the end node, and a, a fail-branch node, has three edges without a      *)
(* condition: to t1 and t2, which do not join, and to the end node, which  *)
(* is not in their region; t1 is a fail-branch node without outgoing       *)
(* edges.  With len 1 its edges are                                        *)
(* [if_error] to b, [never] to a and one without a condition to u; b, a    *)
(* fail-branch node, has the single edge [failed] to the end node, and the *)
(* end node has an edge to node after.  "halt" has a node w that retries   *)
(* once and whose run() can succeed, fail, be stopped or raise, followed   *)
(* by node z: with len 0 the chain start -> w -> z -> end, with len 1 the  *)
(* fan-out start -> {w, v} whose branches w -> z and v join in front of    *)
(* the end node.                                                           *)
(***************************************************************************)
ChainNode(k) == "n" \o ToString(k)

Edge(s, t) == [source |-> s, target |-> t, run_condition |-> None]

NodeDefaults ==
    [type |-> "code", error_strategy |-> None, continue_on_error |-> FALSE,
     retry |-> FALSE, max_retries |-> 0, tokens |-> 0,
     outputs |-> {"result"}, default_value |-> {},
     outcomes |-> {"succeeded"}]

\* The node ids of graph g (Graph.node_ids).
Nodes(g) ==
    CASE g.kind = "chain"  -> {ChainNode(k) : k \in 1..g.len}
      [] g.kind = "fork"   -> {"start", "x", "y", "join", "end"}
      [] g.kind = "nest"   -> {"start", "x", "c", "d", "m", "join", "end"}
      [] g.kind = "retry"  -> {"start", "api", "job", "end"}
      [] g.kind = "risky"  -> {"start", "risky", "gate", "rescue", "use", "lone", "end"}
      [] g.kind = "tails"  -> {"start", "p", "q"}
      [] g.kind = "cond"   ->
            IF g.len = 0
            THEN {"start", "cond", "e1", "e2", "join", "end", "a", "t1", "t2"}
            ELSE {"start", "cond", "b", "a", "u", "end", "after"}
      [] g.kind = "halt"   ->
            IF g.len = 0
            THEN {"start", "w", "z", "end"}
            ELSE {"start", "w", "z", "v", "join", "end"}

\* Graph.root_node_id.
root_node_id(g) == IF g.kind = "chain" THEN ChainNode(1) ELSE "start"

\* Graph.node_id_config_mapping: the node's data and what its run() may do.
\* outcomes is the set of results one call of node.run() can end with.
node_id_config_mapping(g, n) ==
    CASE g.kind = "chain" ->
            [NodeDefaults EXCEPT
                !.type = IF n = ChainNode(g.len) THEN "end"
                         ELSE IF n = ChainNode(1) THEN "start" ELSE "code"]
      [] g.kind = "fork" ->
            (CASE n = "start" ->
                    [NodeDefaults EXCEPT !.type = "start",
                                         !.outcomes = {"succeeded", "stopped"}]
               [] n = "x" ->
                    [NodeDefaults EXCEPT !.type = "llm", !.tokens = 1,
                                         !.outputs = {"text"},
                                         !.outcomes = {"succeeded", "failed", "raise"}]
               [] n = "y" ->
                    [NodeDefaults EXCEPT !.type = "code",
                                         !.error_strategy = "default_value",
                                         !.continue_on_error = TRUE,
                                         !.tokens = 1,
                                         !.default_value = {"result"},
                                         !.outcomes = {"succeeded", "failed"}]
               [] n = "join" ->
                    [NodeDefaults EXCEPT !.type = "tool", !.retry = TRUE,
                                         !.max_retries = 1,
                                         !.outcomes = {"succeeded", "failed"}]
               [] OTHER -> [NodeDefaults EXCEPT !.type = "end"])
      [] g.kind = "nest" ->
            (CASE n = "start" -> [NodeDefaults EXCEPT !.type = "start"]
               [] n = "c" ->
                    [NodeDefaults EXCEPT !.outcomes = {"succeeded", "raise"}]
               [] n = "end" -> [NodeDefaults EXCEPT !.type = "end"]
               [] OTHER -> NodeDefaults)
      [] g.kind = "retry" ->
            (CASE n = "start" -> [NodeDefaults EXCEPT !.type = "start"]
               [] n = "api" ->
                    [NodeDefaults EXCEPT !.type = "http_request", !.retry = TRUE,
                                         !.max_retries = g.len,
                                         !.outputs = {"body"},
                                         !.outcomes = {"succeeded", "failed", "failed_out"}]
               [] n = "job" ->
                    [NodeDefaults EXCEPT !.type = "tool", !.retry = TRUE,
                                         !.max_retries = g.len,
                                         !.outcomes = {"succeeded", "failed", "failed_out"}]
               [] OTHER -> [NodeDefaults EXCEPT !.type = "end"])
      [] g.kind = "risky" ->
            (CASE n = "start" -> [NodeDefaults EXCEPT !.type = "start"]
               [] n = "risky" ->
                    [NodeDefaults EXCEPT !.error_strategy = "default_value",
                                         !.continue_on_error = TRUE,
                                         !.retry = TRUE, !.max_retries = 1,
                                         !.default_value = {"x"},
                                         !.outcomes = {"succeeded", "failed"}]
               [] n \in {"gate", "lone"} ->
                    [NodeDefaults EXCEPT !.type = "http_request",
                                         !.error_strategy = "fail_branch",
                                         !.continue_on_error = TRUE,
                                         !.outcomes = {"succeeded", "failed_out"}]
               [] n = "use" ->
                    [NodeDefaults EXCEPT !.outcomes = {"succeeded", "failed"}]
               [] n = "rescue" -> NodeDefaults
               [] OTHER -> [NodeDefaults EXCEPT !.type = "end"])
      [] g.kind = "tails" ->
            (CASE n = "start" -> [NodeDefaults EXCEPT !.type = "start"]
               [] OTHER ->
                    IF g.len = 0
                    THEN [NodeDefaults EXCEPT !.type = "answer",
                                              !.outputs = {"answer"}]
                    ELSE [NodeDefaults EXCEPT !.type = "end"])
      [] g.kind = "cond" ->
            (CASE n = "start" -> [NodeDefaults EXCEPT !.type = "start"]
               [] n = "cond" ->
                    [NodeDefaults EXCEPT !.error_strategy = "default_value",
                                         !.continue_on_error = TRUE,
                                         !.default_value = {"result", "error_message"},
                                         !.outcomes = {"succeeded", "failed"}]
               [] n = "end" -> [NodeDefaults EXCEPT !.type = "end"]
               [] (n \in {"a", "t1"} /\ g.len = 0) \/ n = "b" ->
                    [NodeDefaults EXCEPT !.error_strategy = "fail_branch",
                                         !.continue_on_error = TRUE,
                                         !.outcomes = {"succeeded", "failed_out"}]
               [] OTHER -> NodeDefaults)
      [] g.kind = "halt" ->
            (CASE n = "start" -> [NodeDefaults EXCEPT !.type = "start"]
               [] n = "w" ->
                    [NodeDefaults EXCEPT !.type = "llm", !.tokens = 1,
                                         !.retry = TRUE, !.max_retries = 1,
                                         !.outcomes = {"succeeded", "failed_out",
                                                       "stopped", "raise"}]
               [] n = "end" -> [NodeDefaults EXCEPT !.type = "end"]
               [] OTHER -> NodeDefaults)

\* The edges of the graph config, in config order.
Edges(g) ==
    CASE g.kind = "chain" ->
            [k \in 1..(g.len - 1) |-> Edge(ChainNode(k), ChainNode(k + 1))]
      [] g.kind = "fork" ->
            <<Edge("start", "x"), Edge("start", "y"),
              Edge("x", "join"), Edge("y", "join"), Edge("join", "end")>>
      [] g.kind = "nest" ->
            <<Edge("start", "x"), Edge("start", "join"),
              Edge("x", "c"), Edge("x", "d"), Edge("c", "m"), Edge("d", "m"),
              Edge("m", "join"), Edge("join", "end")>>
      [] g.kind = "retry" ->
            <<Edge("start", "api"), Edge("api", "job"), Edge("job", "end")>>
      [] g.kind = "risky" ->
            <<Edge("start", "risky"), Edge("risky", "gate"),
              [Edge("gate", "use") EXCEPT !.run_condition = "success"],
              [Edge("gate", "rescue") EXCEPT !.run_condition = "failed"],
              Edge("use", "lone"), Edge("rescue", "lone"), Edge("lone", "end")>>
      [] g.kind = "tails" ->
            <<Edge("start", "p"), Edge("start", "q")>>
      [] g.kind = "cond" ->
            IF g.len = 0
            THEN <<Edge("start", "cond"),
                   [Edge("cond", "e1") EXCEPT !.run_condition = "if_error"],
                   [Edge("cond", "a") EXCEPT !.run_condition = "if_result"],
                   [Edge("cond", "e2") EXCEPT !.run_condition = "if_error"],
                   Edge("e1", "join"), Edge("e2", "join"), Edge("join", "end"),
                   Edge("a", "t1"), Edge("a", "t2"), Edge("a", "end")>>
            ELSE <<Edge("start", "cond"),
                   [Edge("cond", "b") EXCEPT !.run_condition = "if_error"],
                   [Edge("cond", "a") EXCEPT !.run_condition = "never"],
                   Edge("cond", "u"),
                   [Edge("b", "end") EXCEPT !.run_condition = "failed"],
                   Edge("end", "after")>>
      [] g.kind = "halt" ->
            IF g.len = 0
            THEN <<Edge("start", "w"), Edge("w", "z"), Edge("z", "end")>>
            ELSE <<Edge("start", "w"), Edge("start", "v"), Edge("w", "z"),
                   Edge("z", "join"), Edge("v", "join"), Edge("join", "end")>>

\* Graph.edge_mapping.get(n): the outgoing edges of n, in config order.
edge_mapping(g, n) ==
    LET RECURSIVE Pick(_)
        Pick(k) == IF k > Len(Edges(g)) THEN <<>>
                   ELSE IF Edges(g)[k].source = n
                        THEN <<Edges(g)[k]>> \o Pick(k + 1)
                        ELSE Pick(k + 1)
    IN Pick(1)

\* Graph.node_parallel_mapping.get(n): the innermost region of n.
node_parallel_mapping(g, n) ==
    CASE g.kind = "fork" /\ n \in {"x", "y"}      -> "P"
      [] g.kind = "nest" /\ n \in {"x", "m"}      -> "P"
      [] g.kind = "nest" /\ n \in {"c", "d"}      -> "Q"
      [] g.kind = "tails" /\ n \in {"p", "q"}     -> "P"
      [] g.kind = "cond" /\ n \in {"e1", "e2"}    -> "P"
      [] g.kind = "cond" /\ n \in {"t1", "t2"}    -> "Q"
      [] g.kind = "halt" /\ g.len = 1 /\ n \in {"w", "z", "v"} -> "P"
      [] OTHER -> None

\* Graph.parallel_mapping.get(p).end_to_node_id
end_to_node_id(g, p) ==
    CASE g.kind = "fork" /\ p = "P"   -> "join"
      [] g.kind = "nest" /\ p = "P"   -> "join"
      [] g.kind = "nest" /\ p = "Q"   -> "m"
      [] g.kind = "cond" /\ p = "P"   -> "join"
      [] g.kind = "halt" /\ p = "P"   -> "join"
      [] OTHER -> None

\* Graph.parallel_mapping: the regions of the graph.
parallel_mapping(g) ==
    CASE g.kind = "fork"   -> {"P"}
      [] g.kind = "nest"   -> {"P", "Q"}
      [] g.kind = "tails"  -> {"P"}
      [] g.kind = "cond"   -> IF g.len = 0 THEN {"P", "Q"} ELSE {}
      [] g.kind = "halt"   -> IF g.len = 1 THEN {"P"} ELSE {}
      [] OTHER -> {}

(***************************************************************************)
(* Events.  One record shape for every GraphEngineEvent: t the event class,*)
(* n the node id, p / s the parallel_id and parallel_start_node_id tags,   *)
(* pp / ps the parent_parallel_id and parent_parallel_start_node_id tags,  *)
(* i the route state's index (retry_index for NodeRunRetry), e the error   *)
(* text and c the exceptions_count of a terminal event.                    *)
(***************************************************************************)
Event(t, n, p, s, pp, ps, i, e, c) ==
    [t |-> t, n |-> n, p |-> p, s |-> s, pp |-> pp, ps |-> ps,
     i |-> i, e |-> e, c |-> c]

\* The None that _run_parallel_branches puts on its queue to end its loop.
QueueEnd == Event("None", None, None, None, None, None, 0, None, 0)

TerminalTypes == {"GraphRunSucceeded", "GraphRunPartialSucceeded", "GraphRunFailed"}
NodeEndTypes == {"NodeRunSucceeded", "NodeRunFailed", "NodeRunException"}
BranchEndTypes == {"ParallelBranchRunSucceeded", "ParallelBranchRunFailed"}

(***************************************************************************)
(* Drivers.                                                                *)
(***************************************************************************)
Main == "main"

\* The targets of fan-out edges: the nodes a branch thread can start at.
BranchStarts(g) ==
    {Edges(g)[k].target : k \in {j \in 1..Len(Edges(g)) :
                                   Len(edge_mapping(g, Edges(g)[j].source)) > 1}}

Drivers(g) == {Main} \cup BranchStarts(g)

\* parallel_start_node_id of the events of driver d.
StartNodeOf(d) == IF d = Main THEN None ELSE d

Idle ==
    [pc |-> "idle", node |-> None, status |-> None, handle |-> None,
     retries |-> 0, tmp |-> 0, idx |-> 0, err |-> None, errkind |-> None,
     par |-> None, ppar |-> None, pstart |-> None, parent |-> None,
     pid |-> None, edges |-> <<>>, k |-> 0,
     futures |-> {}, succ |-> 0]

\* The runs the model explores: a graph with the engine's limits
\* (max_execution_steps, the pool's max_submit_count and max_execution_time).
\* A chain of N, N + 1 and N + 2 nodes is run under max_execution_steps = N;
\* the fork is run with limits it never reaches, with a step limit its
\* branches reach, with a pool that takes one submission only and with a
\* time limit that can pass; the nested fan-out, the retrying chain and the
\* chain of nodes that continue on error are run within their limits, the
\* retrying chain with max_retries = 0..MaxRetries.
Run(g, steps, submit, time) ==
    [g |-> g, limit |-> steps, submit |-> submit, time |-> time,
     workers |-> thread_pool_max_workers]

Runs ==
    {Run([kind |-> "chain", len |-> N + extra], N, 2, time) :
        N \in 2..MaxSteps, extra \in 0..2, time \in {"short", "long"}}
    \cup {Run([kind |-> "fork", len |-> 0], 5, 2, "long"),
          Run([kind |-> "fork", len |-> 0], 5, 2, "short"),
          Run([kind |-> "fork", len |-> 0], 1, 2, "long"),
          Run([kind |-> "fork", len |-> 0], 5, 1, "long"),
          Run([kind |-> "nest", len |-> 0], 8, 4, "long")}
    \cup {Run([kind |-> "retry", len |-> R], 5, 2, "long") : R \in 0..MaxRetries}
    \cup {Run([kind |-> "risky", len |-> 0], 8, 2, "long")}
    \cup {Run([kind |-> "tails", len |-> L], 5, 2, "long") : L \in 0..1}

\* The state after GraphEngine.__init__, for run r.
Start(r) ==
    /\ graph = r.g
    /\ max_execution_steps = r.limit
    /\ max_submit_count = r.submit
    /\ max_workers = r.workers
    /\ max_execution_time = r.time
    /\ node_run_steps = 0
    /\ total_tokens = 0
    /\ timed_out = FALSE
    /\ handle_exceptions = <<>>
    /\ variable_pool = {}
    /\ outputs = [end |-> None, answer |-> <<>>]
    /\ submit_count = 0
    /\ pool_registered = TRUE
    /\ drv = [d \in Drivers(graph) |-> Idle]
    /\ q = [d \in Drivers(graph) |-> <<>>]
    /\ stream = <<>>
    /\ run_pc = "new"
    /\ emitted = [d \in Drivers(graph) |-> <<>>]
    /\ run_calls = [n \in Nodes(graph) |-> <<>>]
    /\ overran = {}

\* No sub-graph is being carved.
NoCarving ==
    [pc |-> "off", node_id |-> None, key |-> None,
     graph_config |-> [nodes |-> <<>>, edges |-> <<>>],
     again |-> [nodes |-> <<>>, edges |-> <<>>],
     first |-> [nodes |-> <<>>, edges |-> <<>>, found |-> FALSE],
     second |-> [nodes |-> <<>>, edges |-> <<>>, found |-> FALSE]]

\* No event is being published and no request is being served.
NoPublishing ==
    [pc |-> "off", event |-> None, pub_from |-> None, messages |-> <<>>,
     listening |-> TRUE, stopped |-> FALSE, calls |-> <<>>]

NoGenerating ==
    [pc |-> "off", streaming |-> FALSE, mode |-> None, entered |-> FALSE,
     exception |-> None, exits |-> 0, requests |-> 0]

\* Only the engine is at work.
EngineOnly ==
    carving = NoCarving /\ publishing = NoPublishing /\ generating = NoGenerating

Init == EngineOnly /\ \E r \in Runs : Start(r)

(***************************************************************************)
(* Successor selection of _run (the code after a node has been run).       *)
(***************************************************************************)
\* ConditionManager...check(): a branch-identifier condition holds when its
\* hash names the edge_source_handle of the node just run.
\* Its other kind of condition is a predicate on the variable pool; the
\* ones the graphs use hold when the pool has a value under the selector.
VariablePredicates ==
    [if_error  |-> <<"cond", "error_message">>,
     if_result |-> <<"cond", "result">>,
     never     |-> <<"cond", "missing">>]

ConditionCheck(run_condition, handle) ==
    IF run_condition \in DOMAIN VariablePredicates
    THEN VariablePredicates[run_condition] \in variable_pool
    ELSE run_condition = handle

Stop == [kind |-> "stop", target |-> None, edges |-> <<>>]
GoTo(t) == [kind |-> "next", target |-> t, edges |-> <<>>]
Parallel(es) == [kind |-> "parallel", target |-> None, edges |-> es]

\* The edges of E that carry run condition hash h (one entry of
\* condition_edge_mappings).
EdgesOfHash(E, h) ==
    LET RECURSIVE Pick(_)
        Pick(k) == IF k > Len(E) THEN <<>>
                   ELSE IF E[k].run_condition = h
                        THEN <<E[k]>> \o Pick(k + 1)
                        ELSE Pick(k + 1)
    IN Pick(1)

\* Successor selection that treats an end node like any other node.
SelectSuccessorPastEnd(g, n, status, handle) ==
    LET cfg == node_id_config_mapping(g, n)
        E == edge_mapping(g, n)
        passing == {k \in 1..Len(E) :
                      /\ E[k].run_condition # None
                      /\ ConditionCheck(E[k].run_condition, handle)}
        first == CHOOSE k \in passing : \A j \in passing : k <= j
        group == EdgesOfHash(E, E[first].run_condition)
    IN  IF Len(E) = 0 THEN Stop
        ELSE IF Len(E) = 1 THEN
            IF /\ status = "exception"
               /\ cfg.error_strategy = "fail_branch"
               /\ E[1].run_condition = None
            THEN Stop
            ELSE IF /\ E[1].run_condition # None
                    /\ ~ConditionCheck(E[1].run_condition, handle)
            THEN Stop
            ELSE GoTo(E[1].target)
        ELSE IF \E k \in 1..Len(E) : E[k].run_condition # None THEN
            IF passing = {} THEN Stop
            ELSE IF Len(group) = 1 THEN GoTo(E[first].target)
            ELSE Parallel(group)
        ELSE IF /\ cfg.continue_on_error
                /\ cfg.error_strategy = "fail_branch"
                /\ status = "exception"
        THEN Stop
        ELSE Parallel(E)

\* Successor selection that dispatches the unconditioned edges of a
\* fail-branch node even when the node ended in exception.
SelectSuccessorFansOutAnyway(g, n, status, handle) ==
    LET cfg == node_id_config_mapping(g, n)
        E == edge_mapping(g, n)
        passing == {k \in 1..Len(E) :
                      /\ E[k].run_condition # None
                      /\ ConditionCheck(E[k].run_condition, handle)}
        first == CHOOSE k \in passing : \A j \in passing : k <= j
        group == EdgesOfHash(E, E[first].run_condition)
    IN  IF cfg.type = "end" THEN Stop
        ELSE IF Len(E) = 0 THEN Stop
        ELSE IF Len(E) = 1 THEN
            IF /\ status = "exception"
               /\ cfg.error_strategy = "fail_branch"
               /\ E[1].run_condition = None
            THEN Stop
            ELSE IF /\ E[1].run_condition # None
                    /\ ~ConditionCheck(E[1].run_condition, handle)
            THEN Stop
            ELSE GoTo(E[1].target)
        ELSE IF \E k \in 1..Len(E) : E[k].run_condition # None THEN
            IF passing = {} THEN Stop
            ELSE IF Len(group) = 1 THEN GoTo(E[first].target)
            ELSE Parallel(group)
        ELSE Parallel(E)

\* Successor selection without the stop after a fail-branch node that ended
\* in exception and has one edge without a condition.
SelectSuccessorPastFailBranch(g, n, status, handle) ==
    LET cfg == node_id_config_mapping(g, n)
        E == edge_mapping(g, n)
        passing == {k \in 1..Len(E) :
                      /\ E[k].run_condition # None
                      /\ ConditionCheck(E[k].run_condition, handle)}
        first == CHOOSE k \in passing : \A j \in passing : k <= j
        group == EdgesOfHash(E, E[first].run_condition)
    IN  IF cfg.type = "end" THEN Stop
        ELSE IF Len(E) = 0 THEN Stop
        ELSE IF Len(E) = 1 THEN
            IF /\ E[1].run_condition # None
                    /\ ~ConditionCheck(E[1].run_condition, handle)
            THEN Stop
            ELSE GoTo(E[1].target)
        ELSE IF \E k \in 1..Len(E) : E[k].run_condition # None THEN
            IF passing = {} THEN Stop
            ELSE IF Len(group) = 1 THEN GoTo(E[first].target)
            ELSE Parallel(group)
        ELSE IF /\ cfg.continue_on_error
                /\ cfg.error_strategy = "fail_branch"
                /\ status = "exception"
        THEN Stop
        ELSE Parallel(E)

\* Successor selection that follows the last group whose condition holds.
SelectSuccessorLastGroup(g, n, status, handle) ==
    LET cfg == node_id_config_mapping(g, n)
        E == edge_mapping(g, n)
        passing == {k \in 1..Len(E) :
                      /\ E[k].run_condition # None
                      /\ ConditionCheck(E[k].run_condition, handle)}
        head(k) == CHOOSE i \in 1..Len(E) :
                      /\ E[i].run_condition = E[k].run_condition
                      /\ \A j \in 1..Len(E) :
                            E[j].run_condition = E[k].run_condition => i <= j
        first == CHOOSE k \in passing : \A j \in passing : head(k) >= head(j)
        group == EdgesOfHash(E, E[first].run_condition)
    IN  IF cfg.type = "end" THEN Stop
        ELSE IF Len(E) = 0 THEN Stop
        ELSE IF Len(E) = 1 THEN
            IF /\ status = "exception"
               /\ cfg.error_strategy = "fail_branch"
               /\ E[1].run_condition = None
            THEN Stop
            ELSE IF /\ E[1].run_condition # None
                    /\ ~ConditionCheck(E[1].run_condition, handle)
            THEN Stop
            ELSE GoTo(E[1].target)
        ELSE IF \E k \in 1..Len(E) : E[k].run_condition # None THEN
            IF passing = {} THEN Stop
            ELSE IF Len(group) = 1 THEN GoTo(E[first].target)
            ELSE Parallel(group)
        ELSE IF /\ cfg.continue_on_error
                /\ cfg.error_strategy = "fail_branch"
                /\ status = "exception"
        THEN Stop
        ELSE Parallel(E)

\* What _run does after node n has been run with route status `status` and
\* edge_source_handle `handle`: stop, go to one successor, or dispatch.
SelectSuccessor(g, n, status, handle) ==
    LET cfg == node_id_config_mapping(g, n)
        E == edge_mapping(g, n)
        passing == {k \in 1..Len(E) :
                      /\ E[k].run_condition # None
                      /\ ConditionCheck(E[k].run_condition, handle)}
        first == CHOOSE k \in passing : \A j \in passing : k <= j
        group == EdgesOfHash(E, E[first].run_condition)
    IN  IF cfg.type = "end" THEN Stop
        ELSE IF Len(E) = 0 THEN Stop
        ELSE IF Len(E) = 1 THEN
            IF /\ status = "exception"
               /\ cfg.error_strategy = "fail_branch"
               /\ E[1].run_condition = None
            THEN Stop
            ELSE IF /\ E[1].run_condition # None
                    /\ ~ConditionCheck(E[1].run_condition, handle)
            THEN Stop
            ELSE GoTo(E[1].target)
        ELSE IF \E k \in 1..Len(E) : E[k].run_condition # None THEN
            IF passing = {} THEN Stop
            ELSE IF Len(group) = 1 THEN GoTo(E[first].target)
            ELSE Parallel(group)
        ELSE IF /\ cfg.continue_on_error
                /\ cfg.error_strategy = "fail_branch"
                /\ status = "exception"
        THEN Stop
        ELSE Parallel(E)

\* A guard that lets a branch driver go on with a node outside its region.
ParallelExitGuardOpen(g, rec, t) ==
    [rec EXCEPT !.pc = "check", !.node = t]

\* The parallel-exit guard that closes the loop body of _run: driver record
\* rec goes on with node t unless t lies outside the region it runs in.
ParallelExitGuard(g, rec, t) ==
    IF rec.par # None /\ node_parallel_mapping(g, t) # rec.par
    THEN [rec EXCEPT !.pc = "stop"]
    ELSE [rec EXCEPT !.pc = "check", !.node = t]

\* The head of _run_parallel_branches: the region of the first edge's target
\* is looked up; a missing region is a GraphRunFailedError.
BeginDispatch(g, rec, es) ==
    LET pid == node_parallel_mapping(g, es[1].target)
    IN  IF pid = None \/ pid \notin parallel_mapping(g)
        THEN [rec EXCEPT !.pc = "raise", !.err = "parallel not found",
                         !.errkind = "GraphRunFailedError"]
        ELSE [rec EXCEPT !.pc = "submit", !.pid = pid, !.edges = es, !.k = 1,
                         !.futures = {}, !.succ = 0]

\* Advance for a _run_node whose retry loop is not left after a failed
\* result (should_continue_retry stays True): the node is run once more.
AdvanceRunsFailedAgain(g, rec) ==
    LET r == SelectSuccessor(g, rec.node, rec.status, rec.handle)
    IN  CASE rec.status = "failed" -> [rec EXCEPT !.pc = "run"]
          [] r.kind = "stop"     -> [rec EXCEPT !.pc = "stop"]
          [] r.kind = "next"     -> ParallelExitGuard(g, rec, r.target)
          [] r.kind = "parallel" -> BeginDispatch(g, rec, r.edges)

\* The driver record after the successor selection that follows rec.node.
Advance(g, rec) ==
    LET r == SelectSuccessor(g, rec.node, rec.status, rec.handle)
    IN  CASE r.kind = "stop"     -> [rec EXCEPT !.pc = "stop"]
          [] r.kind = "next"     -> ParallelExitGuard(g, rec, r.target)
          [] r.kind = "parallel" -> BeginDispatch(g, rec, r.edges)

(***************************************************************************)
(* Yielding.  The main driver's consumer is run() (through the stream      *)
(* processor, which forwards every event); a branch driver's consumer is   *)
(* _run_parallel_node, which puts every event on the dispatcher's queue.   *)
(***************************************************************************)
Cfg(d) == node_id_config_mapping(graph, drv[d].node)

\* A driver can take a step: the main driver only while run() pulls from it.
Active(d) == d # Main \/ run_pc = "running"

\* run() is waiting in q.get() of the main dispatcher and an event is there.
\* Taking an event off the head of the queue and appending it to the stream
\* touches nothing a pool thread reads or writes (threads only append to the
\* tail), so this step commutes with every step of every pool thread: each
\* behaviour has the same stream and the same final state as one in which
\* run() takes every event as soon as it is on the queue.  Only those are
\* explored.
MainForwardReady ==
    /\ run_pc = "running"
    /\ drv[Main].pc = "wait"
    /\ q[Main] # <<>>
    /\ Head(q[Main]) # QueueEnd

\* A step other than the main dispatcher's own can be taken.
Ready(d) == Active(d) /\ ~MainForwardReady

\* The body of run()'s loop for one item of the main driver.
RunLoopBody(ev) ==
    /\ stream' = Append(stream, ev)
    /\ run_pc' = IF ev.t = "NodeRunFailed" THEN "failed_seen" ELSE run_pc
    /\ outputs' =
          IF ev.t = "NodeRunSucceeded"
             /\ node_id_config_mapping(graph, ev.n).type = "end"
          THEN [end |-> ev.n, answer |-> <<>>]
          ELSE IF ev.t = "NodeRunSucceeded"
                  /\ node_id_config_mapping(graph, ev.n).type = "answer"
          THEN [outputs EXCEPT !.answer = Append(@, ev.n)]
          ELSE outputs

\* Yield with a last-in-first-out queue between branch and dispatcher.
YieldLifo(d, ev, qb) ==
    IF d = Main
    THEN RunLoopBody(ev) /\ q' = qb
    ELSE /\ q' = [qb EXCEPT ![drv[d].parent] = <<ev>> \o @]
         /\ UNCHANGED <<stream, run_pc, outputs>>

\* Driver d yields ev; qb is the queue state the step starts from.
Yield(d, ev, qb) ==
    IF d = Main
    THEN RunLoopBody(ev) /\ q' = qb
    ELSE /\ q' = [qb EXCEPT ![drv[d].parent] = Append(@, ev)]
         /\ UNCHANGED <<stream, run_pc, outputs>>

\* run() returns right after a NodeRunFailedEvent: the main driver is never
\* resumed.
Resume(d, ev, rec) ==
    IF d = Main /\ ev.t = "NodeRunFailed" THEN [rec EXCEPT !.pc = "abandoned"] ELSE rec

NodeEvent(d, t, e) ==
    Event(t, drv[d].node, drv[d].par, StartNodeOf(d), drv[d].ppar, drv[d].pstart,
          drv[d].idx, e, 0)

(***************************************************************************)
(* run(): start.                                                           *)
(***************************************************************************)
RunStart ==
    /\ run_pc = "new"
    /\ run_pc' = "running"
    /\ stream' = Append(stream, Event("GraphRunStarted", None, None, None, None, None, 0, None, 0))
    /\ drv' = [drv EXCEPT ![Main] = [@ EXCEPT !.pc = "check",
                                               !.node = root_node_id(graph)]]
    /\ UNCHANGED <<graph, max_workers, max_execution_steps, max_submit_count, max_execution_time, run_calls, carving, publishing, generating, overran,
                   node_run_steps, total_tokens,
                   timed_out, handle_exceptions, variable_pool, outputs,
                   submit_count, pool_registered, q, emitted>>

(***************************************************************************)
(* _run: bounds check and the start of a node.                             *)
(***************************************************************************)
\* The step bound with >= in place of >.
StepsExceededAtLimit == node_run_steps >= max_execution_steps

\* The bounds the driver loop checks before it creates a route node state.
StepsExceeded == node_run_steps > max_execution_steps

\* _is_timed_out(): the clock is read here and nowhere else, so the moment
\* the run passes max_execution_time is the first check that sees it passed;
\* from then on every check sees it.  A "long" max_execution_time is one the
\* run does not live to see; a "short" one can be passed at any check, and
\* is passed at every check that follows a node that ran longer than it.
\* Checked is the driver record after the checks at the head of the loop.
Checked(rec, late) ==
    IF StepsExceeded
    THEN [rec EXCEPT !.pc = "raise", !.err = "Max steps reached.",
                     !.errkind = "GraphRunFailedError"]
    ELSE IF timed_out \/ late
    THEN [rec EXCEPT !.pc = "raise", !.err = "Max execution time reached.",
                     !.errkind = "GraphRunFailedError"]
    ELSE IF rec.node \notin Nodes(graph)
    THEN [rec EXCEPT !.pc = "raise", !.err = "config not found",
                     !.errkind = "GraphRunFailedError"]
    ELSE [rec EXCEPT !.pc = "load_steps", !.status = "running",
                     !.handle = None, !.retries = 0, !.idx = 0]

\* What the clock can show at a check.
Late == IF StepsExceeded \/ timed_out \/ max_execution_time = "long"
        THEN {FALSE}
        ELSE IF overran # {} THEN {TRUE} ELSE BOOLEAN

\* The head of the driver loop, up to the creation of the node.
BoundsCheck(d) ==
    /\ drv[d].pc = "check"
    /\ Ready(d)
    /\ \E late \in Late :
        /\ timed_out' = (timed_out \/ late)
        /\ drv' = [drv EXCEPT ![d] = Checked(@, late)]
    /\ UNCHANGED <<graph, max_workers, max_execution_steps, max_submit_count, max_execution_time, run_calls, carving, publishing, generating, overran,
                   node_run_steps, total_tokens,
                   handle_exceptions, variable_pool, outputs,
                   submit_count, pool_registered, q, stream, run_pc, emitted>>

\* node_run_steps += 1 : the read.
LoadSteps(d) ==
    /\ drv[d].pc = "load_steps"
    /\ Ready(d)
    /\ drv' = [drv EXCEPT ![d] = [@ EXCEPT !.pc = "store_steps",
                                            !.tmp = node_run_steps]]
    /\ UNCHANGED <<graph, max_workers, max_execution_steps, max_submit_count, max_execution_time, run_calls, carving, publishing, generating, overran,
                   node_run_steps, total_tokens,
                   timed_out, handle_exceptions, variable_pool, outputs,
                   submit_count, pool_registered, q, stream, run_pc, emitted>>

\* node_run_steps += 1 : the write.
StoreSteps(d) ==
    /\ drv[d].pc = "store_steps"
    /\ Ready(d)
    /\ node_run_steps' = drv[d].tmp + 1
    /\ drv' = [drv EXCEPT ![d] = [@ EXCEPT !.pc = "stamp"]]
    /\ UNCHANGED <<graph, max_workers, max_execution_steps, max_submit_count, max_execution_time, run_calls, carving, publishing, generating, overran,
                   total_tokens,
                   timed_out, handle_exceptions, variable_pool, outputs,
                   submit_count, pool_registered, q, stream, run_pc, emitted>>

\* item.route_node_state.index = node_run_steps
StampIndex(d) ==
    /\ drv[d].pc = "stamp"
    /\ Ready(d)
    /\ drv' = [drv EXCEPT ![d] = [@ EXCEPT !.pc = "emit_started",
                                            !.idx = node_run_steps]]
    /\ UNCHANGED <<graph, max_workers, max_execution_steps, max_submit_count, max_execution_time, run_calls, carving, publishing, generating, overran,
                   node_run_steps, total_tokens,
                   timed_out, handle_exceptions, variable_pool, outputs,
                   submit_count, pool_registered, q, stream, run_pc, emitted>>

\* yield item, for the NodeRunStartedEvent.
EmitStarted(d) ==
    /\ drv[d].pc = "emit_started"
    /\ Ready(d)
    /\ Yield(d, NodeEvent(d, "NodeRunStarted", None), q)
    /\ emitted' = [emitted EXCEPT ![d] = Append(@, NodeEvent(d, "NodeRunStarted", None))]
    /\ drv' = [drv EXCEPT ![d] = [@ EXCEPT !.pc = "run"]]
    /\ UNCHANGED <<graph, max_workers, max_execution_steps, max_submit_count, max_execution_time, run_calls, carving, publishing, generating, overran,
                   node_run_steps, total_tokens,
                   timed_out, handle_exceptions, variable_pool,
                   submit_count, pool_registered>>

(***************************************************************************)
(* _run_node: one call of node.run() and the handling of its result.       *)
(***************************************************************************)
HasEdges(n) == Len(edge_mapping(graph, n)) > 0

\* The rule without the test of the node's type.
CoercedWhateverTheType(cfg, retries, o) ==
    /\ retries = cfg.max_retries
    /\ o = "failed_out"
    /\ ~cfg.continue_on_error

\* The HTTP-request rule: a failed result of the last attempt that carries
\* outputs counts as succeeded.
CoercedToSucceeded(cfg, retries, o) ==
    /\ retries = cfg.max_retries
    /\ cfg.type = "http_request"
    /\ o = "failed_out"
    /\ ~cfg.continue_on_error

\* RunCompleted with the retry test retries <= max_retries: one retry more.
RunCompletedRetriesOnceMore(cfg, retries, o) ==
    IF o = "succeeded" THEN "succeeded"
    ELSE IF cfg.retry /\ retries <= cfg.max_retries THEN "retry"
    ELSE IF CoercedToSucceeded(cfg, retries, o) THEN "succeeded"
    ELSE IF cfg.continue_on_error THEN "exception"
    ELSE "failed"

\* What the handling of a RunCompletedEvent comes to, for result o of the
\* attempt made after `retries` retries: retry, succeeded, exception, failed.
RunCompleted(cfg, retries, o) ==
    IF o = "succeeded" THEN "succeeded"
    ELSE IF cfg.retry /\ retries < cfg.max_retries THEN "retry"
    ELSE IF CoercedToSucceeded(cfg, retries, o) THEN "succeeded"
    ELSE IF cfg.continue_on_error THEN "exception"
    ELSE "failed"

\* A result whose outputs never reach the pool.
ResultOutputsDropped(cfg, o) == {}

\* The outputs of the result node.run() ended with.
ResultOutputs(cfg, o) == IF o = "failed" THEN {} ELSE cfg.outputs

\* The outputs of the result _handle_continue_on_error builds.
ErrorOutputs(cfg, o) ==
    CASE cfg.error_strategy = "default_value" ->
            cfg.default_value \cup {"error_message", "error_type"}
      [] cfg.error_strategy = "fail_branch" -> {"error_message", "error_type"}
      [] OTHER -> ResultOutputs(cfg, o)

\* _handle_continue_on_error's writes to the pool, then the append of the
\* handled result's outputs by _run_node.
ErrorPoolWrites(n, cfg, o) ==
    {<<n, "error_message">>, <<n, "error_type">>}
    \cup {<<n, key>> : key \in ErrorOutputs(cfg, o)}

\* An edge_source_handle set without the look at the node's outgoing edges.
SourceHandleWithoutEdges(cfg, n, kind) ==
    IF cfg.error_strategy = "fail_branch"
       /\ (kind = "exception" \/ cfg.continue_on_error)
    THEN (IF kind = "exception" THEN "failed" ELSE "success")
    ELSE None

\* An edge_source_handle that is "success" whatever the result.
SourceHandleSuccess(cfg, n, kind) ==
    IF cfg.error_strategy = "fail_branch" /\ HasEdges(n)
       /\ (kind = "exception" \/ cfg.continue_on_error)
    THEN "success"
    ELSE None

\* edge_source_handle of the result, set only for a fail_branch node that
\* has outgoing edges.
SourceHandle(cfg, n, kind) ==
    IF cfg.error_strategy = "fail_branch" /\ HasEdges(n)
       /\ (kind = "exception" \/ cfg.continue_on_error)
    THEN (IF kind = "exception" THEN "failed" ELSE "success")
    ELSE None

\* The two keys _handle_continue_on_error adds, with the failed result's
\* error and error_type as their values.
ErrorValues == [error_message |-> "node failed", error_type |-> "node error"]

\* node.default_value_dict: the configured keys, each with its default.
DefaultValueDict(cfg) == [key \in cfg.default_value |-> "default"]

\* The dict {**f, **g}: the keys of both, g's value where both have the key.
Overlay(f, g) ==
    [key \in DOMAIN f \cup DOMAIN g |-> IF key \in DOMAIN g THEN g[key] ELSE f[key]]

\* The overlay the other way round: a default hides an error key.
HandleContinueOnErrorDefaultsWin(cfg, n, o) ==
    [status |-> "exception", error_strategy |-> cfg.error_strategy,
     edge_source_handle |-> SourceHandle(cfg, n, "exception"),
     outputs |-> IF cfg.error_strategy = "default_value"
                 THEN Overlay(ErrorValues, DefaultValueDict(cfg))
                 ELSE ErrorValues]

\* The NodeRunResult _handle_continue_on_error returns for a node with the
\* default_value or the fail_branch strategy whose run() ended with o.
HandleContinueOnError(cfg, n, o) ==
    [status |-> "exception", error_strategy |-> cfg.error_strategy,
     edge_source_handle |-> SourceHandle(cfg, n, "exception"),
     outputs |-> IF cfg.error_strategy = "default_value"
                 THEN Overlay(DefaultValueDict(cfg), ErrorValues)
                 ELSE ErrorValues]

\* An exception out of node.run() that is handled like a stop: one
\* NodeRunFailedEvent and a return, with nothing raised again.
ResultKindRaiseSwallowed(cfg, retries, o) ==
    CASE o = "raise" -> "stopped"
      [] o = "stopped" -> "stopped"
      [] OTHER -> RunCompleted(cfg, retries, o)

\* A GenerateTaskStoppedError that is retried like a failed result while
\* the node has retries left.
ResultKindStopRetried(cfg, retries, o) ==
    CASE o = "raise" -> "raise"
      [] o = "stopped" -> IF cfg.retry /\ retries < cfg.max_retries
                          THEN "retry" ELSE "stopped"
      [] OTHER -> RunCompleted(cfg, retries, o)

\* How _run_node and _run treat result o of node.run(): "raise" for an
\* exception out of the node, "stopped" for GenerateTaskStoppedError, else
\* what the handling of the RunCompletedEvent comes to.
ResultKind(cfg, retries, o) ==
    CASE o = "raise" -> "raise"
      [] o = "stopped" -> "stopped"
      [] OTHER -> RunCompleted(cfg, retries, o)

\* Whether one call of a node's run() can last longer than
\* max_execution_time: a "long" limit is one no node of the run exceeds.
Slow == IF max_execution_time = "short" THEN BOOLEAN ELSE {FALSE}

\* node.run() ends with result o; the engine handles it up to its first
\* access to shared state.  For a succeeded result with tokens that access
\* is the read of total_tokens += ...
RunNode(d) ==
    /\ drv[d].pc = "run"
    /\ Ready(d)
    /\ \E slow \in Slow :
          overran' = IF slow THEN overran \cup {drv[d].node} ELSE overran
    /\ \E o \in Cfg(d).outcomes :
        LET cfg == Cfg(d)
            n == drv[d].node
            kind == ResultKind(cfg, drv[d].retries, o)
        IN  /\ drv' = [drv EXCEPT ![d] =
                  CASE kind = "raise" ->
                          [@ EXCEPT !.pc = "emit_raise", !.status = "failed"]
                    [] kind = "stopped" ->
                          [@ EXCEPT !.pc = "emit_stopped", !.status = "failed"]
                    [] kind = "retry" ->
                          [@ EXCEPT !.pc = "emit_retry", !.retries = @ + 1]
                    [] kind = "failed" ->
                          [@ EXCEPT !.pc = "emit_failed", !.status = "failed"]
                    [] kind = "exception" ->
                          [@ EXCEPT !.pc = "emit_exception", !.status = "exception",
                                    !.handle = SourceHandle(cfg, n, kind)]
                    [] kind = "succeeded" ->
                          [@ EXCEPT !.pc = IF cfg.tokens > 0 THEN "store_tokens"
                                           ELSE "emit_succeeded",
                                    !.status = "success",
                                    !.handle = SourceHandle(cfg, n, kind),
                                    !.tmp = total_tokens]]
            /\ handle_exceptions' =
                  IF kind = "exception" THEN Append(handle_exceptions, n)
                  ELSE handle_exceptions
            /\ variable_pool' =
                  IF kind = "exception"
                  THEN variable_pool \cup ErrorPoolWrites(n, cfg, o)
                  ELSE IF kind = "succeeded" /\ cfg.tokens = 0
                  THEN variable_pool \cup {<<n, key>> : key \in ResultOutputs(cfg, o)}
                  ELSE variable_pool
            /\ run_calls' = [run_calls EXCEPT ![n] = Append(@, o)]
    /\ UNCHANGED <<graph, max_workers, max_execution_steps, max_submit_count, max_execution_time, carving, publishing, generating,
                   node_run_steps, total_tokens,
                   timed_out, outputs, submit_count, pool_registered, q,
                   stream, run_pc, emitted>>

\* total_tokens += ... : the write; then the outputs go to the pool.
StoreTokens(d) ==
    /\ drv[d].pc = "store_tokens"
    /\ Ready(d)
    /\ total_tokens' = drv[d].tmp + Cfg(d).tokens
    /\ variable_pool' = variable_pool
                        \cup {<<drv[d].node, key>> : key \in Cfg(d).outputs}
    /\ drv' = [drv EXCEPT ![d] = [@ EXCEPT !.pc = "emit_succeeded"]]
    /\ UNCHANGED <<graph, max_workers, max_execution_steps, max_submit_count, max_execution_time, run_calls, carving, publishing, generating, overran,
                   node_run_steps,
                   timed_out, handle_exceptions, outputs,
                   submit_count, pool_registered, q, stream, run_pc, emitted>>

\* NodeRunRetryEvent: retry_index is the number of retries so far.
RetryEvent(d) ==
    Event("NodeRunRetry", drv[d].node, drv[d].par, StartNodeOf(d),
          drv[d].ppar, drv[d].pstart, drv[d].retries, "node failed", 0)

\* yield NodeRunRetryEvent; sleep(retry_interval); the node is run again.
EmitRetry(d) ==
    /\ drv[d].pc = "emit_retry"
    /\ Ready(d)
    /\ Yield(d, RetryEvent(d), q)
    /\ emitted' = [emitted EXCEPT ![d] = Append(@, RetryEvent(d))]
    /\ drv' = [drv EXCEPT ![d] = [@ EXCEPT !.pc = "run"]]
    /\ UNCHANGED <<graph, max_workers, max_execution_steps, max_submit_count, max_execution_time, run_calls, carving, publishing, generating, overran,
                   node_run_steps, total_tokens,
                   timed_out, handle_exceptions, variable_pool,
                   submit_count, pool_registered>>

\* The event that ends the node's execution, by the driver's position.
ResultEvent(d) ==
    CASE drv[d].pc = "emit_succeeded" -> NodeEvent(d, "NodeRunSucceeded", None)
      [] drv[d].pc = "emit_exception" -> NodeEvent(d, "NodeRunException", "node failed")
      [] drv[d].pc = "emit_failed"    -> NodeEvent(d, "NodeRunFailed", "node failed")
      [] drv[d].pc = "emit_stopped"   -> NodeEvent(d, "NodeRunFailed", "Workflow stopped.")

\* EmitNodeResult with the outputs of the node's result appended to the
\* pool whatever the result's status.
EmitNodeResultAppendsOutputs(d) ==
    /\ drv[d].pc \in {"emit_succeeded", "emit_exception", "emit_failed", "emit_stopped"}
    /\ Ready(d)
    /\ Yield(d, ResultEvent(d), q)
    /\ emitted' = [emitted EXCEPT ![d] = Append(@, ResultEvent(d))]
    /\ drv' = [drv EXCEPT ![d] = Resume(d, ResultEvent(d), Advance(graph, @))]
    /\ variable_pool' = variable_pool
                        \cup {<<drv[d].node, key>> : key \in Cfg(d).outputs}
    /\ UNCHANGED <<graph, max_workers, max_execution_steps, max_submit_count, max_execution_time, run_calls, carving, publishing, generating, overran,
                   node_run_steps, total_tokens,
                   timed_out, handle_exceptions,
                   submit_count, pool_registered>>

\* _run_node yields the node's last event and returns; _run records the
\* route and selects the successor.
EmitNodeResult(d) ==
    /\ drv[d].pc \in {"emit_succeeded", "emit_exception", "emit_failed", "emit_stopped"}
    /\ Ready(d)
    /\ Yield(d, ResultEvent(d), q)
    /\ emitted' = [emitted EXCEPT ![d] = Append(@, ResultEvent(d))]
    /\ drv' = [drv EXCEPT ![d] = Resume(d, ResultEvent(d), Advance(graph, @))]
    /\ UNCHANGED <<graph, max_workers, max_execution_steps, max_submit_count, max_execution_time, run_calls, carving, publishing, generating, overran,
                   node_run_steps, total_tokens,
                   timed_out, handle_exceptions, variable_pool,
                   submit_count, pool_registered>>

\* node.run() raised: _run yields NodeRunFailedEvent and raises again.
EmitRaise(d) ==
    /\ drv[d].pc = "emit_raise"
    /\ Ready(d)
    /\ Yield(d, NodeEvent(d, "NodeRunFailed", "node raised"), q)
    /\ emitted' = [emitted EXCEPT ![d] = Append(@, NodeEvent(d, "NodeRunFailed", "node raised"))]
    /\ drv' = [drv EXCEPT ![d] =
                  Resume(d, NodeEvent(d, "NodeRunFailed", "node raised"),
                         [@ EXCEPT !.pc = "raise", !.err = "node raised",
                                   !.errkind = "Exception"])]
    /\ UNCHANGED <<graph, max_workers, max_execution_steps, max_submit_count, max_execution_time, run_calls, carving, publishing, generating, overran,
                   node_run_steps, total_tokens,
                   timed_out, handle_exceptions, variable_pool,
                   submit_count, pool_registered>>

(***************************************************************************)
(* _run_parallel_branches, _run_parallel_node and the worker pool.         *)
(***************************************************************************)
\* GraphEngineThreadPool.check_is_full, on the count after the increment.
IsFull(count) == count > max_submit_count

\* The pool threads that are running a task.
BusyWorkers == {b \in DOMAIN drv : b # Main /\ drv[b].pc \notin {"idle", "queued", "done"}}

\* One pass of the submit loop, for edge number k of the dispatched edges:
\* an edge whose target is outside the region is skipped; otherwise
\* thread_pool.submit counts the submission and raises when the pool is full.
Submit(d) ==
    /\ drv[d].pc = "submit"
    /\ Ready(d)
    /\ LET e == drv[d].edges[drv[d].k]
           last == drv[d].k = Len(drv[d].edges)
           after == IF last THEN "wait" ELSE "submit"
       IN  IF node_parallel_mapping(graph, e.target) # drv[d].pid
           THEN /\ drv' = [drv EXCEPT ![d] = [@ EXCEPT !.pc = after, !.k = @ + 1]]
                /\ UNCHANGED submit_count
           ELSE /\ submit_count' = submit_count + 1
                /\ drv' =
                     IF IsFull(submit_count + 1)
                     THEN [drv EXCEPT ![d] =
                             [@ EXCEPT !.pc = "raise", !.err = "Max submit count reached.",
                                       !.errkind = "Exception"]]
                     ELSE [drv EXCEPT
                             ![d] = [@ EXCEPT !.pc = after, !.k = @ + 1,
                                              !.futures = @ \cup {e.target}],
                             ![e.target] = [Idle EXCEPT !.pc = "queued",
                                                        !.node = e.target,
                                                        !.par = drv[d].pid,
                                                        !.ppar = drv[d].par,
                                                        !.pstart = StartNodeOf(d),
                                                        !.parent = d]]
    /\ UNCHANGED <<graph, max_workers, max_execution_steps, max_submit_count, max_execution_time, run_calls, carving, publishing, generating, overran,
                   node_run_steps, total_tokens,
                   timed_out, handle_exceptions, variable_pool, outputs,
                   pool_registered, q, stream, run_pc, emitted>>

BranchEvent(b, t, e) ==
    Event(t, None, drv[b].par, b, drv[b].ppar, drv[b].pstart, 0, e, 0)

\* A pool thread takes the task: _run_parallel_node puts
\* ParallelBranchRunStartedEvent on the queue and starts _run.
BranchStart(b) ==
    /\ drv[b].pc = "queued"
    /\ Ready(b)
    /\ Cardinality(BusyWorkers) < max_workers
    /\ q' = [q EXCEPT ![drv[b].parent] =
                Append(@, BranchEvent(b, "ParallelBranchRunStarted", None))]
    /\ drv' = [drv EXCEPT ![b] = [@ EXCEPT !.pc = "check"]]
    /\ emitted' = [emitted EXCEPT ![b] = Append(@, BranchEvent(b, "ParallelBranchRunStarted", None))]
    /\ UNCHANGED <<graph, max_workers, max_execution_steps, max_submit_count, max_execution_time, run_calls, carving, publishing, generating, overran,
                   node_run_steps, total_tokens,
                   timed_out, handle_exceptions, variable_pool, outputs,
                   submit_count, pool_registered, stream, run_pc>>

\* The branch's _run has returned: ParallelBranchRunSucceededEvent is put
\* and the task's future finishes.
BranchSucceed(b) ==
    /\ b # Main
    /\ drv[b].pc = "stop"
    /\ Ready(b)
    /\ q' = [q EXCEPT ![drv[b].parent] =
                Append(@, BranchEvent(b, "ParallelBranchRunSucceeded", None))]
    /\ drv' = [drv EXCEPT ![b] = [@ EXCEPT !.pc = "finished"]]
    /\ emitted' = [emitted EXCEPT ![b] = Append(@, BranchEvent(b, "ParallelBranchRunSucceeded", None))]
    /\ UNCHANGED <<graph, max_workers, max_execution_steps, max_submit_count, max_execution_time, run_calls, carving, publishing, generating, overran,
                   node_run_steps, total_tokens,
                   timed_out, handle_exceptions, variable_pool, outputs,
                   submit_count, pool_registered, stream, run_pc>>

\* The branch's _run has raised (GraphRunFailedError or any Exception):
\* ParallelBranchRunFailedEvent with the error is put.
BranchFail(b) ==
    /\ b # Main
    /\ drv[b].pc = "raise"
    /\ Ready(b)
    /\ q' = [q EXCEPT ![drv[b].parent] =
                Append(@, BranchEvent(b, "ParallelBranchRunFailed", drv[b].err))]
    /\ drv' = [drv EXCEPT ![b] = [@ EXCEPT !.pc = "finished"]]
    /\ emitted' = [emitted EXCEPT ![b] = Append(@, BranchEvent(b, "ParallelBranchRunFailed", drv[b].err))]
    /\ UNCHANGED <<graph, max_workers, max_execution_steps, max_submit_count, max_execution_time, run_calls, carving, publishing, generating, overran,
                   node_run_steps, total_tokens,
                   timed_out, handle_exceptions, variable_pool, outputs,
                   submit_count, pool_registered, stream, run_pc>>

\* GraphEngineThreadPool.task_done_callback, run when the future is done.
TaskDone(b) ==
    /\ drv[b].pc = "finished"
    /\ Ready(b)
    /\ submit_count' = submit_count - 1
    /\ drv' = [drv EXCEPT ![b] = [@ EXCEPT !.pc = "done"]]
    /\ UNCHANGED <<graph, max_workers, max_execution_steps, max_submit_count, max_execution_time, run_calls, carving, publishing, generating, overran,
                   node_run_steps, total_tokens,
                   timed_out, handle_exceptions, variable_pool, outputs,
                   pool_registered, q, stream, run_pc, emitted>>

(***************************************************************************)
(* The pool's counter, one step per access.  submit_count += 1 in submit   *)
(* runs in the dispatcher's thread and submit_count -= 1 in the done       *)
(* callback runs in the pool thread that finished the task, with no lock.  *)
(* Submit and TaskDone above take each statement as one step; the actions   *)
(* below split them into the read and the write, for SpecPool.             *)
(***************************************************************************)
\* One pass of the submit loop up to the read of submit_count += 1.
SubmitLoad(d) ==
    /\ drv[d].pc = "submit"
    /\ Ready(d)
    /\ LET e == drv[d].edges[drv[d].k]
           last == drv[d].k = Len(drv[d].edges)
           after == IF last THEN "wait" ELSE "submit"
       IN  IF node_parallel_mapping(graph, e.target) # drv[d].pid
           THEN drv' = [drv EXCEPT ![d] = [@ EXCEPT !.pc = after, !.k = @ + 1]]
           ELSE drv' = [drv EXCEPT ![d] = [@ EXCEPT !.pc = "submit_store",
                                                    !.tmp = submit_count]]
    /\ UNCHANGED <<graph, max_workers, max_execution_steps, max_submit_count, max_execution_time, run_calls, carving, publishing, generating, overran,
                   node_run_steps, total_tokens,
                   timed_out, handle_exceptions, variable_pool, outputs,
                   submit_count, pool_registered, q, stream, run_pc, emitted>>

\* submit_count += 1 : the write.
SubmitStore(d) ==
    /\ drv[d].pc = "submit_store"
    /\ Ready(d)
    /\ submit_count' = drv[d].tmp + 1
    /\ drv' = [drv EXCEPT ![d] = [@ EXCEPT !.pc = "submit_check"]]
    /\ UNCHANGED <<graph, max_workers, max_execution_steps, max_submit_count, max_execution_time, run_calls, carving, publishing, generating, overran,
                   node_run_steps, total_tokens,
                   timed_out, handle_exceptions, variable_pool, outputs,
                   pool_registered, q, stream, run_pc, emitted>>

\* The driver record of a task the pool has taken for edge target t,
\* submitted by dispatcher d.
Queued(d, t) ==
    [Idle EXCEPT !.pc = "queued", !.node = t, !.par = drv[d].pid,
                 !.ppar = drv[d].par, !.pstart = StartNodeOf(d), !.parent = d]

\* check_is_full() raises ValueError when the pool is full; otherwise the
\* executor takes the task, and the dispatcher adds the done callback and
\* appends the future.
SubmitCheck(d) ==
    /\ drv[d].pc = "submit_check"
    /\ Ready(d)
    /\ LET e == drv[d].edges[drv[d].k]
           last == drv[d].k = Len(drv[d].edges)
           after == IF last THEN "wait" ELSE "submit"
       IN  drv' =
             IF IsFull(submit_count)
             THEN [drv EXCEPT ![d] =
                     [@ EXCEPT !.pc = "raise", !.err = "Max submit count reached.",
                               !.errkind = "Exception"]]
             ELSE [drv EXCEPT
                     ![d] = [@ EXCEPT !.pc = after, !.k = @ + 1,
                                      !.futures = @ \cup {e.target}],
                     ![e.target] = Queued(d, e.target)]
    /\ UNCHANGED <<graph, max_workers, max_execution_steps, max_submit_count, max_execution_time, run_calls, carving, publishing, generating, overran,
                   node_run_steps, total_tokens,
                   timed_out, handle_exceptions, variable_pool, outputs,
                   submit_count, pool_registered, q, stream, run_pc, emitted>>

\* task_done_callback: submit_count -= 1, the read.
TaskDoneLoad(b) ==
    /\ drv[b].pc = "finished"
    /\ Ready(b)
    /\ drv' = [drv EXCEPT ![b] = [@ EXCEPT !.pc = "done_store", !.tmp = submit_count]]
    /\ UNCHANGED <<graph, max_workers, max_execution_steps, max_submit_count, max_execution_time, run_calls, carving, publishing, generating, overran,
                   node_run_steps, total_tokens,
                   timed_out, handle_exceptions, variable_pool, outputs,
                   submit_count, pool_registered, q, stream, run_pc, emitted>>

\* submit_count -= 1 : the write.
TaskDoneStore(b) ==
    /\ drv[b].pc = "done_store"
    /\ Ready(b)
    /\ submit_count' = drv[b].tmp - 1
    /\ drv' = [drv EXCEPT ![b] = [@ EXCEPT !.pc = "done"]]
    /\ UNCHANGED <<graph, max_workers, max_execution_steps, max_submit_count, max_execution_time, run_calls, carving, publishing, generating, overran,
                   node_run_steps, total_tokens,
                   timed_out, handle_exceptions, variable_pool, outputs,
                   pool_registered, q, stream, run_pc, emitted>>

\* A dispatcher that forwards a ParallelBranchRunFailedEvent of its own
\* region without raising.
AfterForwardKeepsWaiting(rec, ev) ==
    IF ev.p = rec.pid /\ ev.t = "ParallelBranchRunSucceeded"
    THEN [rec EXCEPT !.succ = @ + 1]
    ELSE rec

\* A dispatcher that counts every event of its region as a branch that has
\* succeeded (the test of the event's class left out).
AfterForwardCountsAll(rec, ev) ==
    IF ev.p = rec.pid /\ ev.t # "ParallelBranchRunFailed"
    THEN [rec EXCEPT !.succ = @ + 1]
    ELSE IF ev.p = rec.pid /\ ev.t = "ParallelBranchRunFailed"
    THEN [rec EXCEPT !.pc = "raise", !.err = ev.e, !.errkind = "GraphRunFailedError"]
    ELSE rec

\* The dispatcher's record after it has yielded event ev of its queue.
AfterForward(rec, ev) ==
    IF ev.p = rec.pid /\ ev.t = "ParallelBranchRunSucceeded"
    THEN [rec EXCEPT !.succ = @ + 1]
    ELSE IF ev.p = rec.pid /\ ev.t = "ParallelBranchRunFailed"
    THEN [rec EXCEPT !.pc = "raise", !.err = ev.e, !.errkind = "GraphRunFailedError"]
    ELSE rec

\* The end signal after the first branch that succeeds.
FirstSucceeded(rec) == rec.succ >= 1

\* succeeded_count == len(futures)
AllSucceeded(rec) == rec.succ = Cardinality(rec.futures)

\* One pass of the dispatcher's loop with an event on the queue: the event
\* is yielded; the last ParallelBranchRunSucceededEvent puts None on the
\* queue, a ParallelBranchRunFailedEvent raises GraphRunFailedError.
Forward(d) ==
    /\ drv[d].pc = "wait"
    /\ Active(d)
    /\ q[d] # <<>>
    /\ Head(q[d]) # QueueEnd
    /\ LET ev == Head(q[d])
           rec == AfterForward(drv[d], ev)
           rest == IF rec.pc = "wait" /\ rec.succ # drv[d].succ
                      /\ AllSucceeded(rec)
                   THEN Append(Tail(q[d]), QueueEnd)
                   ELSE Tail(q[d])
       IN  /\ Yield(d, ev, [q EXCEPT ![d] = rest])
           /\ drv' = [drv EXCEPT ![d] = Resume(d, ev, rec)]
           /\ emitted' = [emitted EXCEPT ![d] = Append(@, ev)]
    /\ UNCHANGED <<graph, max_workers, max_execution_steps, max_submit_count, max_execution_time, run_calls, carving, publishing, generating, overran,
                   node_run_steps, total_tokens,
                   timed_out, handle_exceptions, variable_pool,
                   submit_count, pool_registered>>

\* The dispatcher reads None, waits for the futures and goes on with the
\* region's end_to_node_id.
Join(d) ==
    /\ drv[d].pc = "wait"
    /\ Active(d)
    /\ q[d] # <<>>
    /\ Head(q[d]) = QueueEnd
    /\ \A f \in drv[d].futures : drv[f].pc \in {"finished", "done_store", "done"}
    /\ q' = [q EXCEPT ![d] = Tail(@)]
    /\ drv' = [drv EXCEPT ![d] =
          IF end_to_node_id(graph, drv[d].pid) = None
          THEN [@ EXCEPT !.pc = "stop"]
          ELSE ParallelExitGuard(graph, @, end_to_node_id(graph, drv[d].pid))]
    /\ UNCHANGED <<graph, max_workers, max_execution_steps, max_submit_count, max_execution_time, run_calls, carving, publishing, generating, overran,
                   node_run_steps, total_tokens,
                   timed_out, handle_exceptions, variable_pool, outputs,
                   submit_count, pool_registered, stream, run_pc, emitted>>

(***************************************************************************)
(* run(): the three ways it ends.                                          *)
(***************************************************************************)
Terminal(t, e) ==
    Event(t, None, None, None, None, None, 0, e, Len(handle_exceptions))

\* The last NodeRunFailedEvent run() has yielded.
LastFailedReason == stream[Len(stream)].e

\* RunNodeFailed without the return that follows the yield: run() goes on
\* pulling from the main driver.
RunNodeFailedNoReturn ==
    /\ run_pc = "failed_seen"
    /\ stream' = Append(stream, Terminal("GraphRunFailed", LastFailedReason))
    /\ run_pc' = "running"
    /\ UNCHANGED <<graph, max_workers, max_execution_steps, max_submit_count, max_execution_time, run_calls, carving, publishing, generating, overran,
                   node_run_steps, total_tokens,
                   timed_out, handle_exceptions, variable_pool, outputs,
                   submit_count, pool_registered, drv, q, emitted>>

\* After a NodeRunFailedEvent: GraphRunFailedEvent, and run() returns.
RunNodeFailed ==
    /\ run_pc = "failed_seen"
    /\ stream' = Append(stream, Terminal("GraphRunFailed", LastFailedReason))
    /\ run_pc' = "done"
    /\ UNCHANGED <<graph, max_workers, max_execution_steps, max_submit_count, max_execution_time, run_calls, carving, publishing, generating, overran,
                   node_run_steps, total_tokens,
                   timed_out, handle_exceptions, variable_pool, outputs,
                   submit_count, pool_registered, drv, q, emitted>>

\* A run() that does not look at handle_exceptions when its driver is done.
AlwaysSucceeded == "GraphRunSucceeded"

\* The event class run() picks when the main driver is exhausted.
SuccessEventType ==
    IF Len(handle_exceptions) > 0
    THEN "GraphRunPartialSucceeded"
    ELSE "GraphRunSucceeded"

\* The main driver is exhausted: GraphRunPartialSucceededEvent or
\* GraphRunSucceededEvent, then _release_thread.
RunSucceeded ==
    /\ run_pc = "running"
    /\ drv[Main].pc = "stop"
    /\ stream' = Append(stream, Terminal(SuccessEventType, None))
    /\ run_pc' = "done"
    /\ pool_registered' = FALSE
    /\ drv' = [drv EXCEPT ![Main] = [@ EXCEPT !.pc = "returned"]]
    /\ UNCHANGED <<graph, max_workers, max_execution_steps, max_submit_count, max_execution_time, run_calls, carving, publishing, generating, overran,
                   node_run_steps, total_tokens,
                   timed_out, handle_exceptions, variable_pool, outputs,
                   submit_count, q, emitted>>

\* The main driver raised GraphRunFailedError or another exception:
\* GraphRunFailedEvent, then _release_thread.
RunRaised ==
    /\ run_pc = "running"
    /\ drv[Main].pc = "raise"
    /\ stream' = Append(stream, Terminal("GraphRunFailed", drv[Main].err))
    /\ run_pc' = "done"
    /\ pool_registered' = FALSE
    /\ drv' = [drv EXCEPT ![Main] = [@ EXCEPT !.pc = "raised"]]
    /\ UNCHANGED <<graph, max_workers, max_execution_steps, max_submit_count, max_execution_time, run_calls, carving, publishing, generating, overran,
                   node_run_steps, total_tokens,
                   timed_out, handle_exceptions, variable_pool, outputs,
                   submit_count, q, emitted>>

Next ==
    \/ RunStart
    \/ RunNodeFailed
    \/ RunSucceeded
    \/ RunRaised
    \/ \E d \in DOMAIN drv : BoundsCheck(d)
    \/ \E d \in DOMAIN drv : LoadSteps(d)
    \/ \E d \in DOMAIN drv : StoreSteps(d)
    \/ \E d \in DOMAIN drv : StampIndex(d)
    \/ \E d \in DOMAIN drv : EmitStarted(d)
    \/ \E d \in DOMAIN drv : RunNode(d)
    \/ \E d \in DOMAIN drv : StoreTokens(d)
    \/ \E d \in DOMAIN drv : EmitRetry(d)
    \/ \E d \in DOMAIN drv : EmitNodeResult(d)
    \/ \E d \in DOMAIN drv : EmitRaise(d)
    \/ \E d \in DOMAIN drv : Submit(d)
    \/ \E d \in DOMAIN drv : BranchStart(d)
    \/ \E d \in DOMAIN drv : BranchSucceed(d)
    \/ \E d \in DOMAIN drv : BranchFail(d)
    \/ \E d \in DOMAIN drv : TaskDone(d)
    \/ \E d \in DOMAIN drv : Forward(d)
    \/ \E d \in DOMAIN drv : Join(d)

Spec == Init /\ [][Next]_vars

\* The consumer closes or abandons the generator run() returned while run()
\* is suspended at the yield of an event of a node that is running (the
\* NodeRunStarted or NodeRunRetry of the main driver) or of an event the
\* main dispatcher has forwarded.  GeneratorExit is raised at that yield; it
\* is no Exception, so no except clause of run() or of the dispatcher's loop
\* catches it: run() and its driver yield nothing more, _release_thread is
\* not called, and nothing is said to the pool threads.
ConsumerStops ==
    /\ run_pc = "running"
    /\ \/ drv[Main].pc = "run"
       \/ drv[Main].pc = "wait" /\ stream[Len(stream)].p # None
    /\ run_pc' = "closed"
    /\ UNCHANGED <<graph, max_workers, max_execution_steps, max_submit_count, max_execution_time, run_calls, carving, publishing, generating, overran,
                   node_run_steps, total_tokens,
                   timed_out, handle_exceptions, variable_pool, outputs,
                   submit_count, pool_registered, drv, q, stream, emitted>>

\* The fork with a pool of one and of two submissions, read by a consumer
\* that can stop reading.
RunsCancel ==
    {Run([kind |-> "fork", len |-> 0], 5, K, "long") : K \in 1..2}

InitCancel == EngineOnly /\ \E r \in RunsCancel : Start(r)

NextCancel ==
    \/ Next
    \/ ConsumerStops

SpecCancel == InitCancel /\ [][NextCancel]_vars

\* The fork with a pool of one and of two submissions, the accesses to the
\* pool's counter taken one by one.
RunsPool ==
    {Run([kind |-> "fork", len |-> 0], 5, K, "long") : K \in 1..2}

InitPool == EngineOnly /\ \E r \in RunsPool : Start(r)

NextPool ==
    \/ RunStart
    \/ RunNodeFailed
    \/ RunSucceeded
    \/ RunRaised
    \/ \E d \in DOMAIN drv : BoundsCheck(d)
    \/ \E d \in DOMAIN drv : LoadSteps(d)
    \/ \E d \in DOMAIN drv : StoreSteps(d)
    \/ \E d \in DOMAIN drv : StampIndex(d)
    \/ \E d \in DOMAIN drv : EmitStarted(d)
    \/ \E d \in DOMAIN drv : RunNode(d)
    \/ \E d \in DOMAIN drv : StoreTokens(d)
    \/ \E d \in DOMAIN drv : EmitRetry(d)
    \/ \E d \in DOMAIN drv : EmitNodeResult(d)
    \/ \E d \in DOMAIN drv : EmitRaise(d)
    \/ \E d \in DOMAIN drv : SubmitLoad(d)
    \/ \E d \in DOMAIN drv : SubmitStore(d)
    \/ \E d \in DOMAIN drv : SubmitCheck(d)
    \/ \E d \in DOMAIN drv : BranchStart(d)
    \/ \E d \in DOMAIN drv : BranchSucceed(d)
    \/ \E d \in DOMAIN drv : BranchFail(d)
    \/ \E d \in DOMAIN drv : TaskDoneLoad(d)
    \/ \E d \in DOMAIN drv : TaskDoneStore(d)
    \/ \E d \in DOMAIN drv : Forward(d)
    \/ \E d \in DOMAIN drv : Join(d)

SpecPool == InitPool /\ [][NextPool]_vars

\* The runs on which the selection of the successor is examined: the graphs
\* with variable-predicate conditions, the graph with fail branches, and the
\* fork with a pool of one and of two submissions.
RunsCond ==
    {Run([kind |-> "cond", len |-> L], 8, 2, "long") : L \in 0..1}
    \cup {Run([kind |-> "risky", len |-> 0], 8, 2, "long")}
    \cup {Run([kind |-> "fork", len |-> 0], 5, K, "long") : K \in 1..2}

InitCond == EngineOnly /\ \E r \in RunsCond : Start(r)

SpecCond == InitCond /\ [][Next]_vars

\* The runs on which a node that is stopped, raises or fails for good is
\* examined: node w at top level and inside a parallel branch, next to the
\* graph with fail branches and the fork with a pool of one and of two
\* submissions.
RunsHalt ==
    {Run([kind |-> "halt", len |-> L], 8, 2, "long") : L \in 0..1}
    \cup {Run([kind |-> "risky", len |-> 0], 8, 2, "long")}
    \cup {Run([kind |-> "fork", len |-> 0], 5, K, "long") : K \in 1..2}

InitHalt == EngineOnly /\ \E r \in RunsHalt : Start(r)

SpecHalt == InitHalt /\ [][Next]_vars

\* The pool size of the runs in which branches wait on nested branches: as
\* many workers as the outer region of the nested fan-out has branches that
\* dispatch (one, branch x), in place of the 10 of GraphEngine.__init__.
StarvedWorkers == 1

\* The runs on which termination is examined: the nested fan-out with a
\* pool of StarvedWorkers threads, no submission rejected; and the fork
\* within its limits and with a step limit its branches reach.
RunsLive ==
    {[Run([kind |-> "nest", len |-> 0], 8, 4, "long") EXCEPT !.workers = StarvedWorkers],
     Run([kind |-> "fork", len |-> 0], 5, 2, "long"),
     Run([kind |-> "fork", len |-> 0], 1, 2, "long")}

InitLive == EngineOnly /\ \E r \in RunsLive : Start(r)

\* Every thread that can take a step keeps being scheduled.
SpecLive == InitLive /\ [][Next]_vars /\ WF_vars(Next)

(***************************************************************************)
(* The sub-graph carver (api/core/app/apps/workflow_app_runner.py):        *)
(* _get_graph_and_variable_pool_of_single_iteration and ..._single_loop    *)
(* keep, of a graph config, the node node_id and the nodes whose           *)
(* data.iteration_id (resp. data.loop_id) is node_id, and the edges        *)
(* between kept nodes.  A node config is [id, iteration_id, loop_id], an   *)
(* edge config [source, target]; a key that is absent reads None.          *)
(***************************************************************************)
\* Largest number of node configs, and of edge configs, in a graph config.
MaxConfigs == 2

CarveIds == {"a", "b"}

\* Node configs: a node lies in no container, in iteration a or in loop a.
NodeConfigs ==
    {[id |-> i, iteration_id |-> c[1], loop_id |-> c[2]] :
        i \in CarveIds, c \in {<<None, None>>, <<"a", None>>, <<None, "a">>}}

EdgeConfigs ==
    {[source |-> a, target |-> b] :
        a \in CarveIds \cup {None}, b \in CarveIds \cup {None}}

\* The sequences over S of length at most n.
SeqUpTo(S, n) == UNION {[1..k -> S] : k \in 0..n}

GraphConfigs ==
    {[nodes |-> ns, edges |-> es] :
        ns \in SeqUpTo(NodeConfigs, MaxConfigs),
        es \in SeqUpTo(EdgeConfigs, MaxConfigs)}

\* node.get("data", {}).get(key, ""), for key iteration_id or loop_id.
ContainerOf(node, key) ==
    IF key = "iteration_id" THEN node.iteration_id ELSE node.loop_id

\* The node filter: the node itself and the nodes it contains.
FilterNodes(nodes, node_id, key) ==
    LET Keep(node) == node.id = node_id \/ ContainerOf(node, key) = node_id
    IN  SelectSeq(nodes, Keep)

\* node_ids = [node.get("id") for node in graph_config["nodes"]], taken
\* from the config as it was handed in.
NodeIdsOfWholeGraph(graph_config, node_configs) ==
    {graph_config.nodes[k].id : k \in 1..Len(graph_config.nodes)}

\* node_ids = [node.get("id") for node in node_configs]
NodeIds(graph_config, node_configs) ==
    {node_configs[k].id : k \in 1..Len(node_configs)}

\* The edge filter, asking of the source only that it is among node_ids.
FilterEdgesBySource(edges, node_ids) ==
    LET Keep(edge) == edge.source = None \/ edge.source \in node_ids
    IN  SelectSeq(edges, Keep)

\* The edge filter: both ends absent or among node_ids.
FilterEdges(edges, node_ids) ==
    LET Keep(edge) == /\ (edge.source = None \/ edge.source \in node_ids)
                      /\ (edge.target = None \/ edge.target \in node_ids)
    IN  SelectSeq(edges, Keep)

\* The graph config the carver hands to Graph.init, and whether the config
\* of node_id is among its nodes (if not, the carver raises ValueError).
Carve(graph_config, node_id, key) ==
    LET node_configs == FilterNodes(graph_config.nodes, node_id, key)
        node_ids == NodeIds(graph_config, node_configs)
    IN  [nodes |-> node_configs,
         edges |-> FilterEdges(graph_config.edges, node_ids),
         found |-> \E k \in 1..Len(node_configs) : node_configs[k].id = node_id]

\* The engine is not running while a sub-graph is carved.
engine_vars ==
    <<graph, max_workers, max_execution_steps, max_submit_count, max_execution_time, run_calls,
      node_run_steps, total_tokens, timed_out, handle_exceptions, variable_pool,
      outputs, submit_count, pool_registered, drv, q, stream, run_pc, emitted,
      overran>>

\* _get_graph_and_variable_pool_of_single_iteration(workflow, node_id, ...)
CarveSingleIteration(node_id) ==
    /\ carving.pc = "stored"
    /\ carving' = [carving EXCEPT
                     !.pc = "carved", !.node_id = node_id, !.key = "iteration_id",
                     !.first = Carve(carving.graph_config, node_id, "iteration_id")]
    /\ UNCHANGED <<engine_vars, publishing, generating>>

\* _get_graph_and_variable_pool_of_single_loop(workflow, node_id, ...)
CarveSingleLoop(node_id) ==
    /\ carving.pc = "stored"
    /\ carving' = [carving EXCEPT
                     !.pc = "carved", !.node_id = node_id, !.key = "loop_id",
                     !.first = Carve(carving.graph_config, node_id, "loop_id")]
    /\ UNCHANGED <<engine_vars, publishing, generating>>

\* A second call for the same workflow and node.  The first call assigned
\* its node and edge lists into the dict workflow.graph_dict returned, so the
\* second call reads the stored config if graph_dict builds a new dict on
\* every access, and the result of the first call if it hands out one dict.
CarveAgain ==
    /\ carving.pc = "carved"
    /\ \E graph_config \in {carving.graph_config,
                             [nodes |-> carving.first.nodes,
                              edges |-> carving.first.edges]} :
          carving' = [carving EXCEPT
                        !.pc = "recarved",
                        !.again = graph_config,
                        !.second = Carve(graph_config, carving.node_id, carving.key)]
    /\ UNCHANGED <<engine_vars, publishing, generating>>

InitCarve ==
    /\ Start(Run([kind |-> "chain", len |-> 2], 2, 2, "long"))
    /\ publishing = NoPublishing
    /\ generating = NoGenerating
    /\ \E g \in GraphConfigs : carving = [NoCarving EXCEPT !.pc = "stored",
                                                           !.graph_config = g]

NextCarve ==
    \/ \E node_id \in CarveIds : CarveSingleIteration(node_id)
    \/ \E node_id \in CarveIds : CarveSingleLoop(node_id)
    \/ CarveAgain

SpecCarve == InitCarve /\ [][NextCarve]_vars

(***************************************************************************)
(* The queue manager of a workflow app                                     *)
(* (api/core/app/apps/workflow/app_queue_manager.py):                      *)
(* WorkflowAppQueueManager._publish puts the message on the queue, stops   *)
(* listening on a terminal event and raises GenerateTaskStoppedError to    *)
(* the application manager once the task is stopped.  The runner publishes *)
(* every engine event through it as APPLICATION_MANAGER                    *)
(* (workflow_app_runner.py, _publish_event).  publishing.calls lists what  *)
(* the current call of _publish has done, in order.                        *)
(***************************************************************************)
\* Largest number of messages put on the queue.
MaxMessages == 2

\* The events after which _publish stops listening.
StopListenEvents ==
    {"QueueStopEvent", "QueueErrorEvent", "QueueMessageEndEvent",
     "QueueWorkflowSucceededEvent", "QueueWorkflowFailedEvent",
     "QueueWorkflowPartialSuccessEvent"}

\* The events published: the terminal ones and two that are not.
QueueEvents == StopListenEvents \cup {"QueueTextChunkEvent", "QueueNodeStartedEvent"}

PublishFrom == {"APPLICATION_MANAGER", "TASK_PIPELINE"}

\* A stopped manager raises whoever publishes.
RaisesForAnyPublisher(pub_from, is_stopped) == is_stopped

\* pub_from == PublishFrom.APPLICATION_MANAGER and self._is_stopped()
RaisesStopped(pub_from, is_stopped) ==
    pub_from = "APPLICATION_MANAGER" /\ is_stopped

\* _publish(event, pub_from): message = WorkflowQueueMessage(...);
\* self._q.put(message)
Publish(event, pub_from) ==
    /\ publishing.pc \in {"idle", "returned", "raised"}
    /\ Len(publishing.messages) < MaxMessages
    /\ publishing' = [publishing EXCEPT
                        !.pc = "stop_listen_check",
                        !.event = event,
                        !.pub_from = pub_from,
                        !.messages = Append(@, event),
                        !.calls = <<"put">>]
    /\ UNCHANGED <<engine_vars, carving, generating>>

\* if isinstance(event, QueueStopEvent | ... ): self.stop_listen()
StopListenCheck ==
    /\ publishing.pc = "stop_listen_check"
    /\ publishing' =
          IF publishing.event \in StopListenEvents
             THEN [publishing EXCEPT !.pc = "stopped_check",
                                     !.listening = FALSE,
                                     !.calls = Append(@, "stop_listen")]
             ELSE [publishing EXCEPT !.pc = "stopped_check"]
    /\ UNCHANGED <<engine_vars, carving, generating>>

\* if pub_from == PublishFrom.APPLICATION_MANAGER and self._is_stopped():
\*     raise GenerateTaskStoppedError()
\* The task is stopped or not at this moment; a stopped task stays stopped.
StoppedCheck ==
    /\ publishing.pc = "stopped_check"
    /\ \E is_stopped \in (IF publishing.stopped THEN {TRUE} ELSE BOOLEAN) :
          publishing' =
             [publishing EXCEPT
                !.stopped = is_stopped,
                !.pc = IF RaisesStopped(publishing.pub_from, is_stopped)
                          THEN "raised" ELSE "returned",
                !.calls = IF RaisesStopped(publishing.pub_from, is_stopped)
                             THEN Append(@, "raise") ELSE @]
    /\ UNCHANGED <<engine_vars, carving, generating>>

InitPublish ==
    /\ Start(Run([kind |-> "chain", len |-> 2], 2, 2, "long"))
    /\ carving = NoCarving
    /\ generating = NoGenerating
    /\ publishing = [NoPublishing EXCEPT !.pc = "idle"]

NextPublish ==
    \/ \E event \in QueueEvents, pub_from \in PublishFrom : Publish(event, pub_from)
    \/ StopListenCheck
    \/ StoppedCheck

SpecPublish == InitPublish /\ [][NextPublish]_vars

(***************************************************************************)
(* The entry of a generation request (api/services/app_generate_service.py)*)
(* AppGenerateService.generate checks the billing rate limit, takes an     *)
(* active-request slot with rate_limit.enter, starts the generator of the  *)
(* app's mode inside a try statement and gives the slot back with          *)
(* rate_limit.exit in its except Exception clause and, when not streaming, *)
(* in its finally clause.  RateLimitError is the error of the model        *)
(* provider's client (openai).  generating.exits counts the calls of       *)
(* rate_limit.exit(request_id) of the current request.                     *)
(***************************************************************************)
\* Largest number of requests served one after the other.
MaxRequests == 2

\* app_model.mode: the five modes generate() knows and one it does not.
AppModes ==
    {"completion", "agent-chat", "chat", "advanced-chat", "workflow", "channel"}

KnownModes == AppModes \ {"channel"}

\* What a call inside the try statement does: it returns, or raises the
\* provider's RateLimitError or another exception.
CallOutcomes == {"returned", "RateLimitError", "Exception"}

\* rate_limit.exit(request_id)
Exit(g) == [g EXCEPT !.exits = @ + 1]

\* except RateLimitError as e: raise InvokeRateLimitError(str(e))
\* except Exception: rate_limit.exit(request_id); raise
ExceptClauses(g) ==
    IF g.exception = "RateLimitError"
       THEN [g EXCEPT !.exception = "InvokeRateLimitError"]
       ELSE Exit(g)

\* finally: if not streaming: rate_limit.exit(request_id)
FinallyClause(g) == IF g.streaming THEN g ELSE Exit(g)

\* AppGenerateService.generate(app_model, user, args, invoke_from, streaming)
Generate(mode, streaming) ==
    /\ generating.pc \in {"idle", "returned", "raised"}
    /\ generating.requests < MaxRequests
    /\ generating' = [pc |-> "billing", streaming |-> streaming, mode |-> mode,
                      entered |-> FALSE, exception |-> None, exits |-> 0,
                      requests |-> generating.requests + 1]
    /\ UNCHANGED <<engine_vars, carving, publishing>>

\* if dify_config.BILLING_ENABLED: ... if is_rate_limited(tenant_id):
\*     raise InvokeRateLimitError(...)
BillingCheck ==
    /\ generating.pc = "billing"
    /\ \E limited \in BOOLEAN :
          generating' =
             IF limited
                THEN [generating EXCEPT !.pc = "raised",
                                        !.exception = "InvokeRateLimitError"]
                ELSE [generating EXCEPT !.pc = "enter"]
    /\ UNCHANGED <<engine_vars, carving, publishing>>

\* try: request_id = rate_limit.enter(request_id)
Enter ==
    /\ generating.pc = "enter"
    /\ \E outcome \in CallOutcomes :
          generating' =
             IF outcome = "returned"
                THEN [generating EXCEPT !.pc = "body", !.entered = TRUE]
                ELSE [generating EXCEPT !.pc = "except", !.exception = outcome]
    /\ UNCHANGED <<engine_vars, carving, publishing>>

\* if app_model.mode == ...: return rate_limit.generate(...Generator()
\* .generate(...), request_id) ... else: raise ValueError(...)
Body ==
    /\ generating.pc = "body"
    /\ \E outcome \in (IF generating.mode \in KnownModes
                          THEN CallOutcomes ELSE {"Exception"}) :
          generating' =
             IF outcome = "returned"
                THEN [generating EXCEPT !.pc = "finally"]
                ELSE [generating EXCEPT !.pc = "except", !.exception = outcome]
    /\ UNCHANGED <<engine_vars, carving, publishing>>

\* The except clause that matches the exception.
Except ==
    /\ generating.pc = "except"
    /\ generating' = [ExceptClauses(generating) EXCEPT !.pc = "finally"]
    /\ UNCHANGED <<engine_vars, carving, publishing>>

\* The finally clause; generate() then returns or the exception leaves it.
Finally ==
    /\ generating.pc = "finally"
    /\ generating' =
          [FinallyClause(generating) EXCEPT
             !.pc = IF generating.exception = None THEN "returned" ELSE "raised"]
    /\ UNCHANGED <<engine_vars, carving, publishing>>

InitGenerate ==
    /\ Start(Run([kind |-> "chain", len |-> 2], 2, 2, "long"))
    /\ carving = NoCarving
    /\ publishing = NoPublishing
    /\ generating = [NoGenerating EXCEPT !.pc = "idle"]

NextGenerate ==
    \/ \E mode \in AppModes, streaming \in BOOLEAN : Generate(mode, streaming)
    \/ BillingCheck
    \/ Enter
    \/ Body
    \/ Except
    \/ Finally

SpecGenerate == InitGenerate /\ [][NextGenerate]_vars

(***************************************************************************)
(* Properties of the event stream of run().                                *)
(***************************************************************************)
\* The positions of the stream that hold an event of one of the classes T.
StreamPositions(T) == {k \in 1..Len(stream) : stream[k].t \in T}

LastEvent == stream[Len(stream)]

\* C1: the stream of run() holds exactly one terminal event
\* (GraphRunSucceeded, GraphRunPartialSucceeded or GraphRunFailed) once run()
\* has ended and none before, and the terminal event is the last event of the
\* stream: nothing is emitted after it.
C1_OneTerminalEvent ==
    /\ Cardinality(StreamPositions(TerminalTypes)) = IF run_pc = "done" THEN 1 ELSE 0
    /\ run_pc = "done" => LastEvent.t \in TerminalTypes

\* A run that ended with GraphRunFailed while a branch thread is still at
\* work on a node: what the thread puts on the queue reaches nobody.
C1_Witness ==
    /\ run_pc = "done"
    /\ LastEvent.t = "GraphRunFailed"
    /\ \E b \in DOMAIN drv : b # Main /\ drv[b].pc = "run"
    /\ Len(q[Main]) > 0

\* The closing events of the branch opened at stream position k that the
\* stream holds after k.
ClosingPositions(k) ==
    {j \in (k + 1)..Len(stream) : /\ stream[j].t \in BranchEndTypes
                                  /\ stream[j].p = stream[k].p
                                  /\ stream[j].s = stream[k].s}

FatalError ==
    \/ StreamPositions({"NodeRunFailed"}) # {}
    \/ drv[Main].errkind # None

\* C9: the terminal event is GraphRunPartialSucceeded exactly when at least
\* one node ended in NodeRunException and no fatal error occurred,
\* GraphRunSucceeded exactly when no node did and no fatal error occurred,
\* and GraphRunFailed exactly when a fatal error occurred.
C9_TerminalKind ==
    run_pc = "done" =>
        LET handled == StreamPositions({"NodeRunException"})
        IN  /\ (LastEvent.t = "GraphRunPartialSucceeded") <=> (handled # {} /\ ~FatalError)
            /\ (LastEvent.t = "GraphRunSucceeded") <=> (handled = {} /\ ~FatalError)
            /\ (LastEvent.t = "GraphRunFailed") <=> FatalError

\* A run that ended GraphRunPartialSucceeded: a branch node ended in
\* NodeRunException and the join node succeeded after a retry.
C9_Witness ==
    /\ run_pc = "done"
    /\ LastEvent.t = "GraphRunPartialSucceeded"
    /\ \E k \in StreamPositions({"NodeRunException"}) : stream[k].s = "y"
    /\ StreamPositions({"NodeRunRetry"}) # {}

\* C10: with max_execution_steps = N and no time limit passed, a chain of
\* N nodes ends in GraphRunSucceeded, and a chain of N + 1 nodes ends in
\* GraphRunFailed after its N-th NodeRunSucceeded, the (N + 1)-th node never
\* starting.
C10_StepLimit ==
    (graph.kind = "chain" /\ run_pc = "done" /\ ~timed_out) =>
        /\ graph.len = max_execution_steps => LastEvent.t = "GraphRunSucceeded"
        /\ graph.len = max_execution_steps + 1 =>
              /\ LastEvent.t = "GraphRunFailed"
              /\ Cardinality(StreamPositions({"NodeRunSucceeded"})) = max_execution_steps
              /\ Cardinality(StreamPositions({"NodeRunStarted"})) = max_execution_steps

\* C10 (amended): with max_execution_steps = N and no time limit passed, a
\* chain of N nodes and a chain of N + 1 nodes end in GraphRunSucceeded with
\* every node run, and a chain of N + 2 nodes ends in GraphRunFailed (max
\* steps reached) right after its (N + 1)-th NodeRunSucceeded, the
\* (N + 2)-th node never starting.
C10_StepLimitPlusOne ==
    (graph.kind = "chain" /\ run_pc = "done" /\ ~timed_out) =>
        /\ graph.len <= max_execution_steps + 1 =>
              /\ LastEvent.t = "GraphRunSucceeded"
              /\ Cardinality(StreamPositions({"NodeRunSucceeded"})) = graph.len
        /\ graph.len = max_execution_steps + 2 =>
              /\ LastEvent.t = "GraphRunFailed"
              /\ LastEvent.e = "Max steps reached."
              /\ stream[Len(stream) - 1].t = "NodeRunSucceeded"
              /\ stream[Len(stream) - 1].n = ChainNode(max_execution_steps + 1)
              /\ Cardinality(StreamPositions({"NodeRunSucceeded"})) = max_execution_steps + 1
              /\ Cardinality(StreamPositions({"NodeRunStarted"})) = max_execution_steps + 1

\* A chain of N + 2 nodes has been stopped by the step limit N.
C10_Witness ==
    /\ graph.kind = "chain"
    /\ graph.len = max_execution_steps + 2
    /\ run_pc = "done"
    /\ ~timed_out
    /\ LastEvent.e = "Max steps reached."

(***************************************************************************)
(* Properties of what one driver produces.                                 *)
(***************************************************************************)
\* The events of node n that driver d's own _run_node calls have produced.
NodeLog(d, n) ==
    LET OfNode(ev) == ev.n = n /\ ev.s = StartNodeOf(d)
    IN  SelectSeq(emitted[d], OfNode)

\* Driver d is inside _run_node for node n.
InRunNode(d, n) ==
    /\ drv[d].node = n
    /\ drv[d].pc \in {"run", "store_tokens", "emit_retry", "emit_raise", "emit_succeeded",
                     "emit_exception", "emit_failed", "emit_stopped"}

\* C2: the events a driver produces for one node execution are one
\* NodeRunStarted, then NodeRunRetry events only, then one of
\* NodeRunSucceeded, NodeRunFailed, NodeRunException as the last: never two
\* of them, also when the node raises or is stopped; and an execution that
\* has started and has no such event yet is still being run by its driver.
C2_OneEndPerExecution ==
    \A d \in DOMAIN drv : \A n \in Nodes(graph) :
        LET log == NodeLog(d, n)
            ends == {k \in 1..Len(log) : log[k].t \in NodeEndTypes}
        IN  /\ \A k \in 1..Len(log) : (log[k].t = "NodeRunStarted") <=> (k = 1)
            /\ Cardinality(ends) <= 1
            /\ \A k \in ends : k = Len(log)
            /\ \A k \in 2..Len(log) : k \notin ends => log[k].t = "NodeRunRetry"
            /\ (Len(log) > 0 /\ ends = {}) => InRunNode(d, n)
            /\ (ends # {}) => ~InRunNode(d, n)

\* The node that retries has failed for good after one retry, in a run in
\* which a branch thread has run its node to NodeRunSucceeded.
C2_Witness ==
    /\ \E d \in DOMAIN drv : \E n \in Nodes(graph) :
          /\ Len(NodeLog(d, n)) = 3
          /\ NodeLog(d, n)[2].t = "NodeRunRetry"
          /\ NodeLog(d, n)[3].t = "NodeRunFailed"
    /\ \E d \in DOMAIN drv : \E n \in Nodes(graph) :
          /\ Len(NodeLog(d, n)) = 2
          /\ NodeLog(d, n)[2].t = "NodeRunSucceeded"
          /\ d # Main

(***************************************************************************)
(* Properties of a dispatch.                                               *)
(***************************************************************************)
\* What the dispatcher of branch b yields: run()'s stream for the main
\* driver, the events a branch driver hands to its own consumer otherwise.
DispatcherOutput(b) ==
    IF drv[b].parent = Main THEN stream ELSE emitted[drv[b].parent]

\* The events of seq that come from branch b: those of its own driver and
\* those of the regions nested inside it.
FromBranch(seq, b) ==
    LET Of(ev) == ev.s = b \/ ev.ps = b
    IN  SelectSeq(seq, Of)

IsPrefix(a, c) == Len(a) <= Len(c) /\ \A k \in 1..Len(a) : a[k] = c[k]

\* C4: for every branch i of a dispatch, nested or not, the events of i in
\* the dispatcher's output are, in order, the events i's driver has produced
\* (those of regions nested in i included), which begin with
\* ParallelBranchRunStarted_i and hold the branch's closing event last: each
\* event of the branch lies after Started_i and before Succeeded_i, whatever
\* the interleaving of the branch threads' writes.
C4_BranchEventsBracketed ==
    \A b \in DOMAIN drv :
        drv[b].parent # None =>
            LET log == emitted[b]
                sub == FromBranch(DispatcherOutput(b), b)
            IN  /\ IsPrefix(sub, log)
                /\ \A k \in 1..Len(log) :
                      (log[k].t = "ParallelBranchRunStarted" /\ log[k].s = b) <=> (k = 1)
                /\ \A k \in 1..Len(log) :
                      (log[k].t \in BranchEndTypes /\ log[k].s = b) => (k = Len(log))

\* The outer branch has succeeded in the stream, and inside it the events of
\* the two nested branches are interleaved.
C4_Witness ==
    /\ \E k \in 1..Len(stream) :
          stream[k].t = "ParallelBranchRunSucceeded" /\ stream[k].s = "x"
    /\ \E i, j, k \in 1..Len(stream) :
          /\ i < j /\ j < k
          /\ stream[i].s = "c" /\ stream[i].t = "ParallelBranchRunStarted"
          /\ stream[j].s = "d" /\ stream[j].t = "NodeRunStarted"
          /\ stream[k].s = "c" /\ stream[k].t = "ParallelBranchRunSucceeded"

\* The positions of the stream at which node n starts.
NodeStarts(n) ==
    {k \in 1..Len(stream) : stream[k].t = "NodeRunStarted" /\ stream[k].n = n}

\* The branches of region p whose ParallelBranchRunSucceeded the stream
\* holds before position k.
SucceededBefore(p, k) ==
    {stream[i].s : i \in {j \in 1..(k - 1) :
                            /\ stream[j].t = "ParallelBranchRunSucceeded"
                            /\ stream[j].p = p}}

\* C5: the join barrier.  For every region p that has an end node,
\* NodeRunStarted of p's end_to_node_id is in the stream at most once, and once when the run ends
\* in success after p was dispatched; it is produced by the driver that
\* dispatched p, after the ParallelBranchRunSucceeded of every branch
\* submitted for p has been forwarded, and no event of p's branches (nested
\* regions included) follows it.
C5_JoinBarrier ==
    \A p \in {r \in parallel_mapping(graph) : end_to_node_id(graph, r) # None} :
        LET starts == NodeStarts(end_to_node_id(graph, p))
        IN  /\ Cardinality(starts) <= 1
            /\ \A k \in starts :
                  /\ \E D \in DOMAIN drv :
                        /\ drv[D].pid = p
                        /\ stream[k].s = StartNodeOf(D)
                        /\ SucceededBefore(p, k) = drv[D].futures
                  /\ \A i \in (k + 1)..Len(stream) :
                        stream[i].p # p /\ stream[i].pp # p
            /\ ( /\ run_pc = "done"
                 /\ LastEvent.t \in {"GraphRunSucceeded", "GraphRunPartialSucceeded"}
                 /\ \E i \in 1..Len(stream) : stream[i].p = p )
               => starts # {}

\* The join node of the two-branch fan-out has started after both branches,
\* the second of them one that ended with a handled error.
C5_Witness ==
    /\ graph.kind = "fork"
    /\ NodeStarts("join") # {}
    /\ \E i, j \in 1..Len(stream) :
          /\ i < j
          /\ stream[i].t = "ParallelBranchRunSucceeded" /\ stream[i].s = "x"
          /\ stream[j].t = "ParallelBranchRunSucceeded" /\ stream[j].s = "y"
    /\ \E i \in 1..Len(stream) : stream[i].t = "NodeRunException"

(***************************************************************************)
(* Properties of the shared counters.                                      *)
(***************************************************************************)
\* C6: the index of the NodeRunStarted events is strictly increasing in the
\* order of the stream, hence without duplicates, also for nodes that run in
\* concurrent branches.
C6_IndexStrictlyIncreasing ==
    \A j, k \in StreamPositions({"NodeRunStarted"}) :
        j < k => stream[j].i < stream[k].i

\* The sum of the tokens of the nodes whose NodeRunSucceeded is among seq.
RECURSIVE TokensOf(_)
TokensOf(seq) ==
    IF seq = <<>> THEN 0
    ELSE (IF Head(seq).t = "NodeRunSucceeded"
          THEN node_id_config_mapping(graph, Head(seq).n).tokens
          ELSE 0) + TokensOf(Tail(seq))

\* C7: when the run has ended in success, total_tokens is its initial value
\* (0) plus the tokens of every NodeRunSucceeded emitted in the run: no
\* addition is lost under concurrency.
C7_TokensAddUp ==
    (run_pc = "done" /\ LastEvent.t \in {"GraphRunSucceeded", "GraphRunPartialSucceeded"})
        => total_tokens = TokensOf(stream)

\* C8: the exceptions_count of the terminal event equals the number of
\* NodeRunException events in the stream before it, those of parallel
\* branches included.
C8_ExceptionsCounted ==
    run_pc = "done" =>
        LastEvent.c = Cardinality(StreamPositions({"NodeRunException"}))

(***************************************************************************)
(* Retries of one node.                                                    *)
(***************************************************************************)
\* The nodes the retry contract is about: retry enabled, no
\* continue_on_error, and a run() that ends with a RunCompletedEvent.
RetryNodes ==
    {n \in Nodes(graph) :
        LET cfg == node_id_config_mapping(graph, n)
        IN  /\ cfg.retry
            /\ ~cfg.continue_on_error
            /\ cfg.outcomes \subseteq {"succeeded", "failed", "failed_out"}}

\* The retry contract of node n as driver d's events show it, where
\* exhausted is the class of the event that ends an execution whose
\* max_retries + 1 calls of run() have all failed.
RetryContract(d, n, exhausted) ==
    LET cfg == node_id_config_mapping(graph, n)
        R == cfg.max_retries
        log == NodeLog(d, n)
        calls == run_calls[n]
        retr == {k \in 1..Len(log) : log[k].t = "NodeRunRetry"}
        ends == {k \in 1..Len(log) : log[k].t \in NodeEndTypes}
    IN  /\ Len(calls) <= R + 1
        /\ \A k \in retr : /\ log[k].i = k - 1
                            /\ k - 1 <= R
                            /\ k - 1 <= Len(calls)
                            /\ calls[k - 1] # "succeeded"
        /\ \A k \in ends :
              /\ retr = 2..(k - 1)
              /\ IF calls[Len(calls)] = "succeeded"
                 THEN /\ log[k].t = "NodeRunSucceeded"
                      /\ Cardinality(retr) = Len(calls) - 1
                 ELSE /\ log[k].t = exhausted
                      /\ Cardinality(retr) = R
                      /\ Len(calls) = R + 1

\* C11 as stated: a node with retry and max_retries = R, without
\* continue_on_error, whose run() fails k times before it succeeds emits
\* min(k, R) NodeRunRetry events with retry_index 1, 2, ... in that order,
\* then one NodeRunSucceeded if k <= R and one NodeRunFailed otherwise, for
\* every node type; run() is called at most R + 1 times.
C11_RetryThenFailed ==
    \A d \in DOMAIN drv : \A n \in RetryNodes :
        RetryContract(d, n, "NodeRunFailed")

\* C11, amended: as above, except that an HTTP-request node whose call
\* number R + 1 fails with a result that carries outputs ends in
\* NodeRunSucceeded; every other exhausted node ends in NodeRunFailed.
C11_RetryThenEnd ==
    \A d \in DOMAIN drv : \A n \in RetryNodes :
        LET cfg == node_id_config_mapping(graph, n)
            calls == run_calls[n]
        IN  RetryContract(d, n,
                IF /\ cfg.type = "http_request"
                   /\ calls # <<>>
                   /\ calls[Len(calls)] = "failed_out"
                THEN "NodeRunSucceeded"
                ELSE "NodeRunFailed")

\* With max_retries = 2: api has failed twice and then succeeded, job has
\* failed three times and has ended in NodeRunFailed after two retries.
C11_Witness ==
    /\ graph.kind = "retry"
    /\ graph.len = 2
    /\ run_calls["api"] = <<"failed", "failed_out", "succeeded">>
    /\ Len(run_calls["job"]) = 3
    /\ Len(NodeLog(Main, "job")) = 4
    /\ NodeLog(Main, "job")[3].i = 2
    /\ NodeLog(Main, "job")[4].t = "NodeRunFailed"

(***************************************************************************)
(* The worker pool's cap.                                                  *)
(***************************************************************************)
\* The submissions in flight: the tasks the pool has taken whose done
\* callback has not finished.
InFlight == {b \in DOMAIN drv : b # Main /\ drv[b].pc \notin {"idle", "done"}}

\* Dispatcher d takes the step that decides its submission.
Decides(d) ==
    /\ drv[d].pc = "submit_check"
    /\ drv'[d].pc # "submit_check"

\* C12: with max_submit_count = K a submission is rejected with the pool's
\* "Max submit count reached" error exactly when it would bring the number
\* of submissions in flight to K + 1, and accepted when it keeps them at or
\* below K; a run in which a submission was rejected ends in GraphRunFailed
\* with that error.
C12_PoolCap ==
    /\ [][\A d \in DOMAIN drv :
            Decides(d) =>
                ((drv'[d].err = "Max submit count reached.")
                    <=> (Cardinality(InFlight) + 1 > max_submit_count))]_vars
    /\ []((run_pc = "done"
            /\ \E d \in DOMAIN drv : drv[d].err = "Max submit count reached.")
          => (LastEvent.t = "GraphRunFailed"
              /\ LastEvent.e = "Max submit count reached."))

(***************************************************************************)
(* continue_on_error.                                                      *)
(***************************************************************************)
\* The nodes that continue on error.
ContinueNodes ==
    {n \in Nodes(graph) : node_id_config_mapping(graph, n).continue_on_error}

\* The last event driver d has yielded is the NodeRunException of node n.
JustExcepted(d, n) ==
    /\ emitted[d] # <<>>
    /\ emitted[d][Len(emitted[d])].t = "NodeRunException"
    /\ emitted[d][Len(emitted[d])].n = n
    /\ emitted[d][Len(emitted[d])].s = StartNodeOf(d)

\* Driver d has left its loop without an error.
Stopped(d) == drv[d].pc \in {"stop", "finished", "done", "returned"}

\* Driver d goes on with node t: it is on its way to start t, or t lies
\* outside the region d runs in and d has left its loop (the dispatcher goes
\* on with t when every branch has succeeded).
GoesOnWith(d, t) ==
    IF drv[d].par # None /\ node_parallel_mapping(graph, t) # drv[d].par
    THEN Stopped(d)
    ELSE /\ drv[d].node = t
         /\ drv[d].pc \in {"check", "load_steps", "store_steps", "stamp",
                           "emit_started", "raise", "raised"}

\* What the engine does for a node n that continues on error, up to the
\* NodeRunException event: no NodeRunFailed, route status exception,
\* error_message and error_type in the pool, one entry in handle_exceptions.
ExceptionHandled(d, n) ==
    LET log == NodeLog(d, n)
        excepted == \E k \in 1..Len(log) : log[k].t = "NodeRunException"
    IN  /\ \A k \in 1..Len(log) : log[k].t # "NodeRunFailed"
        /\ (drv[d].node = n /\ drv[d].pc = "emit_exception")
              => drv[d].status = "exception"
        /\ (excepted \/ (drv[d].node = n /\ drv[d].pc = "emit_exception"))
              => /\ {<<n, "error_message">>, <<n, "error_type">>} \subseteq variable_pool
                 /\ Cardinality({k \in 1..Len(handle_exceptions) :
                                    handle_exceptions[k] = n}) = 1
                 /\ run_calls[n][Len(run_calls[n])] # "succeeded"
                 /\ Len(run_calls[n]) =
                        node_id_config_mapping(graph, n).max_retries + 1

\* run() has yielded the NodeRunException of node n.
ExceptionSeen(n) ==
    \E k \in 1..Len(stream) :
        stream[k].t = "NodeRunException" /\ stream[k].n = n

\* The exceptions_count of the terminal event counts node n.
CountsException(n) ==
    \E k \in 1..LastEvent.c :
        k <= Len(handle_exceptions) /\ handle_exceptions[k] = n

\* The targets of n's edges whose run condition names handle h.
TargetsOf(n, h) ==
    LET E == edge_mapping(graph, n)
    IN  {E[k].target : k \in {j \in 1..Len(E) : E[j].run_condition = h}}

\* C13 as stated: a node with continue_on_error that fails after its
\* retries ends in NodeRunException and never in NodeRunFailed, with route
\* status exception and error_message and error_type in the pool; the run
\* continues with the node's successor, and it ends in
\* GraphRunPartialSucceeded whose exceptions_count counts the node once.
C13_AlwaysContinues ==
    \A d \in DOMAIN drv : \A n \in ContinueNodes :
        /\ ExceptionHandled(d, n)
        /\ JustExcepted(d, n) =>
              \E k \in 1..Len(edge_mapping(graph, n)) :
                  GoesOnWith(d, edge_mapping(graph, n)[k].target)
        /\ (run_pc = "done" /\ ExceptionSeen(n)) =>
              /\ LastEvent.t = "GraphRunPartialSucceeded"
              /\ CountsException(n)

\* C13, amended: as above up to the NodeRunException event.  Then a node
\* with the default-value strategy is followed by its successor; a node
\* with the fail-branch strategy is followed by the target of its edge for
\* the failed handle, and by nothing when it has no such edge (its only edge
\* carries no condition).  A run that ends without a fatal error ends in
\* GraphRunPartialSucceeded, one that ends with a fatal error in
\* GraphRunFailed; when run() has yielded the node's NodeRunException, the
\* exceptions_count of either counts the node once.
C13_ContinueOnError ==
    \A d \in DOMAIN drv : \A n \in ContinueNodes :
        LET cfg == node_id_config_mapping(graph, n)
            E == edge_mapping(graph, n)
        IN  /\ ExceptionHandled(d, n)
            /\ JustExcepted(d, n) =>
                  IF cfg.error_strategy = "fail_branch"
                  THEN IF TargetsOf(n, "failed") = {}
                       THEN Stopped(d)
                       ELSE \E t \in TargetsOf(n, "failed") : GoesOnWith(d, t)
                  ELSE Len(E) = 1 => GoesOnWith(d, E[1].target)
            /\ (run_pc = "done" /\ ExceptionSeen(n)) =>
                  /\ LastEvent.t = IF FatalError THEN "GraphRunFailed"
                                   ELSE "GraphRunPartialSucceeded"
                  /\ CountsException(n)

\* The run has ended in GraphRunPartialSucceeded with three exceptions:
\* risky used its default value after one retry, gate took its fail branch
\* to rescue (use never started), and lone stopped the run in front of end.
C13_Witness ==
    /\ graph.kind = "risky"
    /\ run_pc = "done"
    /\ LastEvent.t = "GraphRunPartialSucceeded"
    /\ LastEvent.c = 3
    /\ handle_exceptions = <<"risky", "gate", "lone">>
    /\ <<"risky", "x">> \in variable_pool
    /\ NodeLog(Main, "rescue") # <<>>
    /\ NodeLog(Main, "use") = <<>>
    /\ NodeLog(Main, "end") = <<>>

(***************************************************************************)
(* The variable pool.                                                      *)
(***************************************************************************)
\* The output keys of node n when its execution ends in an event of class t.
OutputKeys(n, t) ==
    LET cfg == node_id_config_mapping(graph, n)
    IN  IF t = "NodeRunSucceeded" THEN cfg.outputs
        ELSE IF cfg.error_strategy = "default_value"
             THEN cfg.default_value \cup {"error_message", "error_type"}
             ELSE {"error_message", "error_type"}

\* The nodes with an edge to a node of S, and S.
EdgeStepBack(S) ==
    S \cup {Edges(graph)[k].source :
              k \in {j \in 1..Len(Edges(graph)) : Edges(graph)[j].target \in S}}

RECURSIVE EdgeClosureBack(_)
EdgeClosureBack(S) ==
    IF EdgeStepBack(S) = S THEN S ELSE EdgeClosureBack(EdgeStepBack(S))

\* The nodes from which node m is reachable along the edges of the graph.
ReachingNodes(m) == EdgeClosureBack({m}) \ {m}

\* Node n has ended in NodeRunSucceeded or NodeRunException and its output
\* keys are in the pool.
EndedWithOutputs(n) ==
    \E d \in DOMAIN drv :
        LET log == NodeLog(d, n)
        IN  /\ log # <<>>
            /\ log[Len(log)].t \in {"NodeRunSucceeded", "NodeRunException"}
            /\ \A key \in OutputKeys(n, log[Len(log)].t) :
                  <<n, key>> \in variable_pool

\* C14: every output key of a node that ends in NodeRunSucceeded or
\* NodeRunException is in the variable pool under <<node_id, key>> before
\* that event is emitted; and when a node m runs, every node that has been
\* started and from which m is reachable has ended in NodeRunSucceeded or
\* NodeRunException, so that its keys are in the pool for m to read.
C14_OutputsInPool ==
    \A d \in DOMAIN drv :
        /\ drv[d].pc = "emit_succeeded" =>
              \A key \in OutputKeys(drv[d].node, "NodeRunSucceeded") :
                  <<drv[d].node, key>> \in variable_pool
        /\ drv[d].pc = "emit_exception" =>
              \A key \in OutputKeys(drv[d].node, "NodeRunException") :
                  <<drv[d].node, key>> \in variable_pool
        /\ \A k \in 1..Len(emitted[d]) :
              emitted[d][k].t \in {"NodeRunSucceeded", "NodeRunException"} =>
                  \A key \in OutputKeys(emitted[d][k].n, emitted[d][k].t) :
                      <<emitted[d][k].n, key>> \in variable_pool
        /\ InRunNode(d, drv[d].node) =>
              \A n \in ReachingNodes(drv[d].node) :
                  run_calls[n] # <<>> => EndedWithOutputs(n)

\* The join node of the fork is running after branch x has succeeded and
\* branch y has ended in NodeRunException: the text of x and the default
\* value and the error of y are in the pool.
C14_Witness ==
    /\ graph.kind = "fork"
    /\ InRunNode(Main, "join")
    /\ NodeLog("x", "x")[Len(NodeLog("x", "x"))].t = "NodeRunSucceeded"
    /\ NodeLog("y", "y")[Len(NodeLog("y", "y"))].t = "NodeRunException"
    /\ {<<"x", "text">>, <<"y", "result">>, <<"y", "error_message">>}
          \subseteq variable_pool

(***************************************************************************)
(* Pool threads after the run.                                             *)
(***************************************************************************)
\* Branch b passes the head of its driver loop and creates the route state
\* of its next node: it starts a node.
StartsNode(b) ==
    /\ drv[b].pc = "check"
    /\ drv'[b].pc = "load_steps"

\* C15: after run() has emitted its terminal event no pool task goes on:
\* a branch in flight starts no further node.
C15_NoWorkAfterTerminal ==
    [][run_pc = "done" => \A b \in DOMAIN drv \ {Main} : ~StartsNode(b)]_vars

\* C16: after the consumer has stopped reading the stream of run() while
\* branches are in flight, no branch starts another node.
C16_NoWorkAfterConsumerStop ==
    [][run_pc = "closed" => \A b \in DOMAIN drv \ {Main} : ~StartsNode(b)]_vars

(***************************************************************************)
(* The sub-graph carver.                                                   *)
(***************************************************************************)
\* C18: carving the single-iteration (resp. single-loop) sub-graph of a
\* node out of a graph config and carving the same node again, out of the
\* result or out of the same graph config, yields the same node list and the
\* same edge list (and the same verdict on whether the node's config was
\* found).
C18_CarverIdempotent ==
    carving.pc = "recarved" => carving.second = carving.first

\* Iteration a has been carved out of a config in which it holds node b, and
\* carved again out of the result; one edge was kept and one was dropped.
C18_Witness ==
    /\ carving.pc = "recarved"
    /\ carving.node_id = "a"
    /\ carving.again # carving.graph_config
    /\ carving.first.found
    /\ Len(carving.first.nodes) = 2
    /\ Len(carving.first.edges) = 1
    /\ Len(carving.first.edges) < Len(carving.graph_config.edges)
    /\ carving.second.nodes = carving.first.nodes

(***************************************************************************)
(* Ownership of the thread pool.                                           *)
(***************************************************************************)
\* C20: the engine was constructed without thread_pool_id and registered its
\* new pool; once run() has finished after a terminal event (GraphRunSucceeded,
\* GraphRunPartialSucceeded or GraphRunFailed, on whatever path) the pool id
\* is no longer in workflow_thread_pool_mapping.
C20_PoolReleased ==
    (run_pc = "done" /\ LastEvent.t \in TerminalTypes) => ~pool_registered

(***************************************************************************)
(* The time limit.                                                         *)
(***************************************************************************)
\* Every call of a node's run() so far has succeeded.
EveryRunSucceeded ==
    \A n \in Nodes(graph) :
        \A k \in 1..Len(run_calls[n]) : run_calls[n][k] = "succeeded"

\* C19: a run in which some node's execution lasted longer than
\* max_execution_time, wherever that node stands in the graph, ends with
\* GraphRunFailed whose error is the max-execution-time reason.  Stated for
\* the runs in which no node failed and the step limit was not passed, so
\* that no other failure competes with the time limit.
C19_SlowNodeFailsRun ==
    (run_pc = "done" /\ overran # {} /\ EveryRunSucceeded /\ ~StepsExceeded) =>
        /\ LastEvent.t = "GraphRunFailed"
        /\ LastEvent.e = "Max execution time reached."

(***************************************************************************)
(* Determinism of a run of deterministic nodes.                            *)
(***************************************************************************)
\* The outputs of the run of a "tails" graph in which the events of branch p
\* reach run() before those of branch q (the order of the edges in the
\* graph config): the answers of p and q in that order, or the outputs of
\* end node q, the last to succeed.
OutputsInConfigOrder ==
    IF graph.len = 0
    THEN [end |-> None, answer |-> <<"p", "q">>]
    ELSE [end |-> "q", answer |-> <<>>]

\* C17: every run of the same graph of deterministic nodes ends with the same
\* outputs, whatever the scheduling of the branch threads; stated for the
\* graphs whose two parallel branches each reach an answer node or an end
\* node, against the outputs of the run that takes the branches in config
\* order.
C17_SameOutputs ==
    (graph.kind = "tails" /\ run_pc = "done") => outputs = OutputsInConfigOrder

(***************************************************************************)
(* The queue between the branches of a region and their dispatcher.        *)
(***************************************************************************)
\* A capacity a bounded dispatch channel could have: room for the events of
\* one branch that runs one node (ParallelBranchRunStarted, NodeRunStarted,
\* the node's end event, ParallelBranchRunSucceeded).
ChannelCapacity == 4

\* C22: the dispatch channel is bounded: the events buffered between the
\* branch workers and the dispatching driver never exceed its capacity (a
\* worker that finds the channel full waits for the dispatcher to take one).
C22_ChannelBounded ==
    \A d \in DOMAIN q : Len(q[d]) <= ChannelCapacity

(***************************************************************************)
(* Successor selection.                                                    *)
(***************************************************************************)
\* The nodes with several outgoing edges of which one carries a condition.
ConditionNodes ==
    LET E == Edges(graph)
        conditioned == {E[j].source :
                          j \in {i \in 1..Len(E) : E[i].run_condition # None}}
    IN  {n \in conditioned :
            Cardinality({j \in 1..Len(E) : E[j].source = n}) > 1}

\* The positions, among n's edges, of the edges of the group with hash h.
GroupOf(n, h) ==
    LET E == edge_mapping(graph, n)
    IN  {k \in 1..Len(E) : E[k].run_condition = h}

\* The hashes of n's groups whose condition holds for edge handle `handle`.
TrueGroups(n, handle) ==
    LET E == edge_mapping(graph, n)
    IN  {h \in {E[k].run_condition : k \in 1..Len(E)} \ {None} :
            ConditionCheck(h, handle)}

\* The first of them in config order: groups are ordered by their first edge.
FirstTrueGroup(n, handle) ==
    CHOOSE h \in TrueGroups(n, handle) :
        \A g \in TrueGroups(n, handle) :
            \A j \in GroupOf(n, g) : \E k \in GroupOf(n, h) : k <= j

\* Driver d yields the last event of a node and selects the successor.
Decides21(d) ==
    /\ drv[d].pc \in {"emit_succeeded", "emit_exception"}
    /\ emitted'[d] # emitted[d]

\* The nodes reachable from the nodes of S along the edges, and S.
EdgeStepForward(S) ==
    LET E == Edges(graph)
    IN  S \cup {E[k].target : k \in {j \in 1..Len(E) : E[j].source \in S}}

RECURSIVE EdgeClosureForward(_)
EdgeClosureForward(S) ==
    IF EdgeStepForward(S) = S THEN S ELSE EdgeClosureForward(EdgeStepForward(S))

\* The edge handle of node n after its end event of class t.
HandleAfter(n, t) ==
    LET cfg == node_id_config_mapping(graph, n)
    IN  IF cfg.error_strategy = "fail_branch" /\ cfg.continue_on_error
        THEN (IF t = "NodeRunException" THEN "failed" ELSE "success")
        ELSE None

\* The nodes that can be reached from n only through a group other than
\* the one followed after n's end event of class t.
OnlyThroughOtherGroup(n, t) ==
    LET E == edge_mapping(graph, n)
        all == {E[k].target : k \in 1..Len(E)}
        followed == IF TrueGroups(n, HandleAfter(n, t)) = {} THEN {}
                    ELSE TargetsOf(n, FirstTrueGroup(n, HandleAfter(n, t)))
    IN  EdgeClosureForward(all) \ EdgeClosureForward(followed)

\* C21: after a node with several outgoing edges of which at least one
\* carries a run condition, the driver follows the first group, in config
\* order, whose condition holds: a group of one edge makes the edge's target
\* the next node, a group of several edges is dispatched as parallel
\* branches; when no group's condition holds the driver stops.  No node
\* reachable only through another group is started, and no event of such a
\* node exists.
C21_FirstTrueGroup ==
    /\ [][\A d \in DOMAIN drv :
            (Decides21(d) /\ drv[d].node \in ConditionNodes) =>
                LET n == drv[d].node
                IN  IF TrueGroups(n, drv[d].handle) = {}
                    THEN drv'[d].pc = "stop"
                    ELSE LET G == GroupOf(n, FirstTrueGroup(n, drv[d].handle))
                             T == TargetsOf(n, FirstTrueGroup(n, drv[d].handle))
                         IN  IF Cardinality(G) = 1
                             THEN /\ drv'[d].pc = "check"
                                  /\ drv'[d].node \in T
                             ELSE /\ drv'[d].pc = "submit"
                                  /\ {drv'[d].edges[k].target :
                                         k \in 1..Len(drv'[d].edges)} = T]_vars
    /\ [](LET events == UNION {{<<emitted[b][k].n, emitted[b][k].t>> :
                                    k \in 1..Len(emitted[b])} : b \in DOMAIN drv}
              seen == {ev[1] : ev \in events}
          IN  \A t \in {"NodeRunSucceeded", "NodeRunException"} :
                \A n \in {ev[1] : ev \in {e \in events : e[2] = t}} :
                    n \in ConditionNodes
                        => seen \cap OnlyThroughOtherGroup(n, t) = {})

\* The run of the graph with variable-predicate conditions has ended after
\* node cond used its default value: both conditions held, the group of the
\* first, e1 and e2, ran as parallel branches and joined, and a, the target
\* of the second, never started.
C21_Witness ==
    /\ graph = [kind |-> "cond", len |-> 0]
    /\ run_pc = "done"
    /\ LastEvent.t = "GraphRunPartialSucceeded"
    /\ {"if_error", "if_result"} \subseteq TrueGroups("cond", None)
    /\ \A n \in {"e1", "e2", "join", "end"} :
          \E k \in 1..Len(stream) :
              stream[k].t = "NodeRunSucceeded" /\ stream[k].n = n
    /\ \A k \in 1..Len(stream) : stream[k].n \notin {"a", "t1", "t2"}

\* The nodes, other than end nodes, with exactly one outgoing edge.
SingleEdgeNodes ==
    LET E == Edges(graph)
    IN  {n \in {E[j].source : j \in 1..Len(E)} :
            /\ Cardinality({j \in 1..Len(E) : E[j].source = n}) = 1
            /\ node_id_config_mapping(graph, n).type # "end"}

\* In the step taken, driver d makes t its next node: it goes to the head
\* of its loop with t, or leaves the loop when it runs in a region t is
\* not part of.
NextIs(d, t) ==
    IF drv[d].par # None /\ node_parallel_mapping(graph, t) # drv[d].par
    THEN drv'[d].pc = "stop"
    ELSE drv'[d].pc = "check" /\ drv'[d].node = t

\* C24: after a node (not an end node) with exactly one outgoing edge e the
\* driver stops if the node ended in exception under the fail-branch
\* strategy and e has no run condition; otherwise it stops if e has a run
\* condition that is false; otherwise it goes on with e's target.  A driver
\* that has stopped starts no node.
C24_SingleEdge ==
    /\ [][\A d \in DOMAIN drv :
            (Decides21(d) /\ drv[d].node \in SingleEdgeNodes) =>
                LET n == drv[d].node
                    e == edge_mapping(graph, n)[1]
                IN  IF /\ drv[d].status = "exception"
                       /\ node_id_config_mapping(graph, n).error_strategy = "fail_branch"
                       /\ e.run_condition = None
                    THEN drv'[d].pc = "stop"
                    ELSE IF /\ e.run_condition # None
                            /\ ~ConditionCheck(e.run_condition, drv[d].handle)
                    THEN drv'[d].pc = "stop"
                    ELSE NextIs(d, e.target)]_vars
    /\ [][\A d \in DOMAIN drv : Stopped(d) => Stopped(d)']_vars

\* The run has ended after fail-branch node b succeeded: its only edge
\* carries the condition [failed], which was false, and the end node behind
\* it never started.
C24_Witness ==
    /\ graph = [kind |-> "cond", len |-> 1]
    /\ run_pc = "done"
    /\ \E k \in 1..Len(stream) :
          stream[k].t = "NodeRunSucceeded" /\ stream[k].n = "b"
    /\ \A k \in 1..Len(stream) : stream[k].n # "end"

\* The nodes, other than end nodes, with several outgoing edges of which
\* none carries a condition.
FanOutNodes ==
    LET E == Edges(graph)
    IN  {n \in {E[j].source : j \in 1..Len(E)} :
            /\ Cardinality({j \in 1..Len(E) : E[j].source = n}) > 1
            /\ \A j \in 1..Len(E) : E[j].source = n => E[j].run_condition = None
            /\ node_id_config_mapping(graph, n).type # "end"}

\* The targets of the edges es that lie in region p.
TargetsInRegion(es, p) ==
    {es[k].target : k \in {j \in 1..Len(es) :
                              node_parallel_mapping(graph, es[j].target) = p}}

\* C25: after a node with several outgoing edges none of which carries a
\* run condition, the driver stops and dispatches nothing if the node
\* continues on error with the fail-branch strategy and ended in exception;
\* otherwise it dispatches the node's edges into the region of the first
\* edge's target: when the submit loop is through, the branches submitted
\* are the targets that belong to that region, one branch each, and after
\* the join the next node is the region's end node (the driver stops if
\* the region has none).
C25_FanOut ==
    /\ [][\A d \in DOMAIN drv :
            (Decides21(d) /\ drv[d].node \in FanOutNodes) =>
                LET n == drv[d].node
                    cfg == node_id_config_mapping(graph, n)
                    E == edge_mapping(graph, n)
                IN  IF /\ cfg.continue_on_error
                       /\ cfg.error_strategy = "fail_branch"
                       /\ drv[d].status = "exception"
                    THEN /\ drv'[d].pc = "stop"
                         /\ \A k \in 1..Len(E) : drv'[E[k].target].pc = "idle"
                    ELSE /\ drv'[d].pc = "submit"
                         /\ drv'[d].edges = E
                         /\ drv'[d].pid = node_parallel_mapping(graph, E[1].target)]_vars
    /\ [](\A d \in DOMAIN drv :
            (drv[d].pc = "wait" /\ drv[d].node \in FanOutNodes) =>
                /\ drv[d].futures = TargetsInRegion(drv[d].edges, drv[d].pid)
                /\ \A b \in drv[d].futures :
                      drv[b].parent = d /\ drv[b].par = drv[d].pid)
    /\ [][\A d \in DOMAIN drv :
            (drv[d].pc = "wait" /\ drv[d].node \in FanOutNodes
                /\ q[d] # <<>> /\ Head(q[d]) = QueueEnd /\ drv'[d] # drv[d]) =>
                IF end_to_node_id(graph, drv[d].pid) = None
                THEN drv'[d].pc = "stop"
                ELSE NextIs(d, end_to_node_id(graph, drv[d].pid))]_vars

\* Fail-branch node a succeeded and its three unconditioned edges were
\* dispatched: t1 and t2 ran as the branches of their region, the edge to
\* the end node, which lies outside it, was passed over, and the driver
\* stopped behind the region, which has no end node.
C25_Witness ==
    /\ graph = [kind |-> "cond", len |-> 0]
    /\ run_pc = "done"
    /\ LastEvent.t = "GraphRunSucceeded"
    /\ drv[Main].node = "a"
    /\ drv[Main].futures = {"t1", "t2"}
    /\ \A n \in {"a", "t1", "t2"} :
          \E k \in 1..Len(stream) :
              stream[k].t = "NodeRunSucceeded" /\ stream[k].n = n
    /\ \A k \in 1..Len(stream) : stream[k].n # "end"

\* C26: after a node of type end the driver stops, whatever edges leave the
\* end node, and so it does after a node without outgoing edges; a driver
\* that has stopped stays stopped and yields no further event of a node.
C26_EndStops ==
    /\ [][\A d \in DOMAIN drv :
            (/\ Decides21(d)
             /\ \/ node_id_config_mapping(graph, drv[d].node).type = "end"
                \/ ~HasEdges(drv[d].node))
            => drv'[d].pc = "stop"]_vars
    /\ [][\A d \in DOMAIN drv :
            Stopped(d) =>
                /\ Stopped(d)'
                /\ \/ emitted'[d] = emitted[d]
                   \/ emitted'[d][Len(emitted'[d])].n = None]_vars

\* The end node, which has an edge to node after, has succeeded and the run
\* has ended without any event of node after.
C26_Witness ==
    /\ graph = [kind |-> "cond", len |-> 1]
    /\ run_pc = "done"
    /\ HasEdges("end")
    /\ \E k \in 1..Len(stream) :
          stream[k].t = "NodeRunSucceeded" /\ stream[k].n = "end"
    /\ \A k \in 1..Len(stream) : stream[k].n # "after"

(***************************************************************************)
(* Branch drivers and their region.                                        *)
(***************************************************************************)
\* C27: every node a branch driver of region P runs itself is mapped to P by
\* node_parallel_mapping: the node the branch was submitted for, the node it
\* is at, and every node it has yielded NodeRunStarted for (events it
\* forwards for the branches of a nested region are not its own).  A node
\* outside P, the join node in particular, is never started by it.
C27_BranchStaysInRegion ==
    \A b \in DOMAIN drv \ {Main} :
        drv[b].pc # "idle" =>
            /\ drv[b].par # None
            /\ node_parallel_mapping(graph, b) = drv[b].par
            /\ node_parallel_mapping(graph, drv[b].node) = drv[b].par
            /\ \A k \in 1..Len(emitted[b]) :
                  (emitted[b][k].t = "NodeRunStarted" /\ emitted[b][k].s = b)
                  => /\ node_parallel_mapping(graph, emitted[b][k].n) = drv[b].par
                     /\ emitted[b][k].n # end_to_node_id(graph, drv[b].par)

\* The run of the nested graph has succeeded: branch x of region P ran x,
\* dispatched the nested region and ran m behind it, both nodes of P, and
\* left the join node to the main driver.
C27_Witness ==
    /\ graph.kind = "nest"
    /\ run_pc = "done"
    /\ LastEvent.t = "GraphRunSucceeded"
    /\ \E k \in 1..Len(emitted["x"]) :
          /\ emitted["x"][k].t = "NodeRunStarted"
          /\ emitted["x"][k].n = "m"
          /\ emitted["x"][k].s = "x"
    /\ \E k \in 1..Len(stream) :
          /\ stream[k].t = "NodeRunStarted"
          /\ stream[k].n = "join"
          /\ stream[k].p = None


(***************************************************************************)
(* A parallel branch whose driver raises.                                  *)
(***************************************************************************)
\* The branches that have put a ParallelBranchRunFailedEvent.
FailedBranches ==
    {b \in DOMAIN emitted \ {Main} :
        \E k \in 1..Len(emitted[b]) : emitted[b][k].t = "ParallelBranchRunFailed"}

\* Dispatcher d is about to read the ParallelBranchRunFailedEvent of one of
\* its own branches.
ReadsOwnFailure(d) ==
    /\ drv[d].pc = "wait"
    /\ q[d] # <<>>
    /\ Head(q[d]) # QueueEnd
    /\ Head(q[d]).t = "ParallelBranchRunFailed"
    /\ Head(q[d]).p = drv[d].pid

\* C23: a branch driver that raised puts ParallelBranchRunFailed with its
\* error on the dispatch channel; the dispatcher that reads the event of one
\* of its own branches raises GraphRunFailedError with the same error; once
\* a branch has failed, a terminal event of the run is GraphRunFailed and the
\* join node of the branch's region has not been started.
C23_BranchFailure ==
    /\ [][\A b \in DOMAIN drv \ {Main} :
            (drv[b].pc = "raise" /\ drv'[b] # drv[b])
                => /\ drv'[b].pc = "finished"
                   /\ q'[drv[b].parent] =
                        Append(q[drv[b].parent],
                               BranchEvent(b, "ParallelBranchRunFailed", drv[b].err))]_vars
    /\ [][\A d \in DOMAIN drv :
            (ReadsOwnFailure(d) /\ emitted'[d] # emitted[d])
                => /\ drv'[d].pc = "raise"
                   /\ drv'[d].errkind = "GraphRunFailedError"
                   /\ drv'[d].err = Head(q[d]).e]_vars
    /\ [](\A b \in FailedBranches :
            /\ (stream[Len(stream)].t \in TerminalTypes
                    => stream[Len(stream)].t = "GraphRunFailed")
            /\ (end_to_node_id(graph, drv[b].par) # None
                    => \A d \in DOMAIN emitted :
                         \A k \in 1..Len(emitted[d]) :
                            ~(/\ emitted[d][k].t = "NodeRunStarted"
                              /\ emitted[d][k].n = end_to_node_id(graph, drv[b].par))))

\* A branch failed after reaching the step limit, its dispatcher raised with
\* that error, and the run ended in GraphRunFailed with it.
C23_Witness ==
    /\ run_pc = "done"
    /\ stream[Len(stream)].t = "GraphRunFailed"
    /\ stream[Len(stream)].e = "Max steps reached."
    /\ \E b \in FailedBranches :
          /\ drv[b].err = "Max steps reached."
          /\ drv[drv[b].parent].err = "Max steps reached."
          /\ drv[drv[b].parent].errkind = "GraphRunFailedError"
          /\ end_to_node_id(graph, drv[b].par) # None


(***************************************************************************)
(* The result of a handled failure.                                        *)
(***************************************************************************)
\* Driver d's node fails in this step and the failure is handled.
Handles28(d) == drv[d].pc = "run" /\ drv'[d].pc = "emit_exception"

\* C28: the result _handle_continue_on_error builds has status exception and
\* carries the node's strategy as metadata.error_strategy; for default_value
\* its outputs are the node's default_value keys and the two error keys,
\* the error keys with the error's values also where a default has the same
\* name; for fail_branch they are exactly the two error keys; the outputs
\* are in the pool, and the call makes handle_exceptions one entry longer.
C28_HandledResult ==
    [][\A d \in DOMAIN drv :
          Handles28(d) =>
            LET n == drv[d].node
                cfg == node_id_config_mapping(graph, n)
                calls == run_calls'[n]
                r == HandleContinueOnError(cfg, n, calls[Len(calls)])
            IN  /\ r.status = "exception"
                /\ drv'[d].status = "exception"
                /\ r.error_strategy = cfg.error_strategy
                /\ cfg.error_strategy \in {"default_value", "fail_branch"}
                /\ DOMAIN r.outputs =
                      IF cfg.error_strategy = "default_value"
                      THEN cfg.default_value \cup {"error_message", "error_type"}
                      ELSE {"error_message", "error_type"}
                /\ r.outputs["error_message"] = "node failed"
                /\ r.outputs["error_type"] = "node error"
                /\ \A key \in DOMAIN r.outputs \ {"error_message", "error_type"} :
                      r.outputs[key] = "default"
                /\ DOMAIN r.outputs = ErrorOutputs(cfg, calls[Len(calls)])
                /\ \A key \in DOMAIN r.outputs : <<n, key>> \in variable_pool'
                /\ Len(handle_exceptions') = Len(handle_exceptions) + 1
                /\ SubSeq(handle_exceptions', 1, Len(handle_exceptions)) = handle_exceptions]_vars

\* Node cond, whose default_value has a key named error_message, has failed
\* and been handled, and so has a fail-branch node after it.
C28_Witness ==
    /\ graph.kind = "cond"
    /\ Len(handle_exceptions) = 2
    /\ handle_exceptions[1] = "cond"
    /\ node_id_config_mapping(graph, handle_exceptions[2]).error_strategy = "fail_branch"
    /\ <<"cond", "result">> \in variable_pool
    /\ "error_message" \in node_id_config_mapping(graph, "cond").default_value


(***************************************************************************)
(* edge_source_handle as the engine sets it.                               *)
(***************************************************************************)
\* The drivers whose node's run has ended in a result the engine has tagged
\* or left untagged, and whose end event is not yet yielded.
ResultInHand == {d \in DOMAIN drv : drv[d].pc \in {"emit_succeeded", "emit_exception"}}

\* C29: for a node with continue_on_error, the fail_branch strategy and an
\* outgoing edge, edge_source_handle is "failed" exactly when the node ended
\* in exception and "success" exactly when it succeeded; for a node without
\* outgoing edges or with another strategy it is not set.
C29_SourceHandle ==
    \A d \in ResultInHand :
        LET n == drv[d].node
            cfg == node_id_config_mapping(graph, n)
        IN  IF cfg.continue_on_error /\ cfg.error_strategy = "fail_branch" /\ HasEdges(n)
            THEN /\ (drv[d].handle = "failed") = (drv[d].status = "exception")
                 /\ (drv[d].handle = "success") = (drv[d].status = "success")
                 /\ drv[d].status \in {"exception", "success"}
            ELSE (~HasEdges(n) \/ cfg.error_strategy # "fail_branch")
                    => drv[d].handle = None

\* Node a, fail_branch with edges, has succeeded with the handle success
\* and its branch t1, fail_branch without edges, has ended in exception with
\* no handle.
C29_Witness ==
    /\ graph.kind = "cond"
    /\ graph.len = 0
    /\ \E d \in ResultInHand :
          /\ drv[d].node = "t1"
          /\ drv[d].status = "exception"
          /\ drv[d].handle = None
    /\ \E d \in DOMAIN drv :
          /\ drv[d].node = "a"
          /\ drv[d].status = "success"
          /\ drv[d].handle = "success"


(***************************************************************************)
(* The HTTP-request rule.                                                  *)
(***************************************************************************)
\* Driver d's node.run() ends in this step.
Completes30(d) ==
    /\ drv[d].pc = "run"
    /\ run_calls'[drv[d].node] # run_calls[drv[d].node]

\* C30: a failed completion of an http_request node with outputs, at
\* retries = max_retries and without continue_on_error, is handled as a
\* success: the outputs go to the pool and the node's next event is
\* NodeRunSucceeded; no other failed completion is handled as a success.
C30_HttpCoercion ==
    /\ [][\A d \in DOMAIN drv :
            Completes30(d) =>
              LET n == drv[d].node
                  cfg == node_id_config_mapping(graph, n)
                  calls == run_calls'[n]
                  o == calls[Len(calls)]
                  rule == /\ cfg.type = "http_request"
                          /\ drv[d].retries = cfg.max_retries
                          /\ o = "failed_out"
                          /\ cfg.outputs # {}
                          /\ ~cfg.continue_on_error
              IN  /\ (o \in {"failed", "failed_out"} /\ rule)
                        => /\ drv'[d].pc \in {"emit_succeeded", "store_tokens"}
                           /\ drv'[d].status = "success"
                           /\ drv'[d].retries = drv[d].retries
                           /\ handle_exceptions' = handle_exceptions
                           /\ (cfg.tokens = 0 =>
                                 \A key \in cfg.outputs : <<n, key>> \in variable_pool')
                  /\ (o \in {"failed", "failed_out"} /\ ~rule)
                        => /\ drv'[d].pc \in {"emit_retry", "emit_failed", "emit_exception"}
                           /\ drv'[d].status # "success"]_vars
    /\ [][\A d \in DOMAIN drv :
            (drv[d].pc = "emit_succeeded" /\ emitted'[d] # emitted[d])
                => /\ Len(emitted'[d]) = Len(emitted[d]) + 1
                   /\ emitted'[d][Len(emitted'[d])].t = "NodeRunSucceeded"
                   /\ emitted'[d][Len(emitted'[d])].n = drv[d].node]_vars

\* With max_retries = 1, api failed, was retried, failed again with outputs
\* and ended in NodeRunSucceeded with its body in the pool.
C30_Witness ==
    /\ graph.kind = "retry"
    /\ graph.len = 1
    /\ run_calls["api"] = <<"failed", "failed_out">>
    /\ <<"api", "body">> \in variable_pool
    /\ Len(NodeLog(Main, "api")) = 3
    /\ NodeLog(Main, "api")[2].t = "NodeRunRetry"
    /\ NodeLog(Main, "api")[3].t = "NodeRunSucceeded"


(***************************************************************************)
(* A node whose run() is stopped.                                          *)
(***************************************************************************)
\* The last result of node n's run(), None before its first call.
LastCall(n) == IF run_calls[n] = <<>> THEN None ELSE run_calls[n][Len(run_calls[n])]

\* The events of class t that driver d has produced for node n.
EventsOf(d, n, t) ==
    {k \in 1..Len(emitted[d]) : emitted[d][k].n = n /\ emitted[d][k].t = t}

\* C31: when node.run() raises GenerateTaskStoppedError the route state
\* becomes failed and the node's next event is its one NodeRunFailed, with
\* the error "Workflow stopped."; run() of the node is not called again,
\* whatever retries are left; and a run that ends after that ends in
\* GraphRunFailed.
C31_StoppedNode ==
    /\ [][\A d \in DOMAIN drv :
            (/\ drv[d].pc = "run"
             /\ run_calls'[drv[d].node] = Append(run_calls[drv[d].node], "stopped"))
                => /\ drv'[d].pc = "emit_stopped"
                   /\ drv'[d].status = "failed"
                   /\ drv'[d].retries = drv[d].retries]_vars
    /\ [][\A d \in DOMAIN drv :
            (drv[d].pc = "emit_stopped" /\ drv'[d] # drv[d])
                => /\ emitted'[d] = Append(emitted[d],
                                           NodeEvent(d, "NodeRunFailed", "Workflow stopped."))
                   /\ drv'[d].pc # "run"]_vars
    /\ [][\A n \in Nodes(graph) :
            LastCall(n) = "stopped" => run_calls'[n] = run_calls[n]]_vars
    /\ [](\A n \in Nodes(graph) : \A d \in DOMAIN drv :
            LastCall(n) = "stopped"
                => /\ Cardinality(EventsOf(d, n, "NodeRunFailed")) <= 1
                   /\ \A k \in EventsOf(d, n, "NodeRunFailed") :
                         emitted[d][k].e = "Workflow stopped."
                   /\ (run_pc = "done" => stream[Len(stream)].t = "GraphRunFailed"))

\* Inside a parallel branch node w failed, was retried and was then stopped
\* with no retry used up for it; the run ended in GraphRunFailed with the
\* error "Workflow stopped.".
C31_Witness ==
    /\ graph = [kind |-> "halt", len |-> 1]
    /\ run_calls["w"] = <<"failed_out", "stopped">>
    /\ Cardinality(EventsOf("w", "w", "NodeRunRetry")) = 1
    /\ Cardinality(EventsOf("w", "w", "NodeRunFailed")) = 1
    /\ run_pc = "done"
    /\ stream[Len(stream)].t = "GraphRunFailed"
    /\ stream[Len(stream)].e = "Workflow stopped."


(***************************************************************************)
(* A node whose run() raises.                                              *)
(***************************************************************************)
\* The positions of the GraphRunFailed events in the stream of run().
GraphFailures == {k \in 1..Len(stream) : stream[k].t = "GraphRunFailed"}

\* C32: when node.run() raises, the driver marks the route failed, yields
\* one NodeRunFailed with the exception's text for the node and raises
\* again; a branch's thread then puts ParallelBranchRunFailed with that
\* text behind the NodeRunFailed; and a run that ends after that, at top
\* level or in a branch, ends with its only GraphRunFailed.
C32_RaisingNode ==
    /\ [][\A d \in DOMAIN drv :
            (/\ drv[d].pc = "run"
             /\ run_calls'[drv[d].node] = Append(run_calls[drv[d].node], "raise"))
                => /\ drv'[d].pc = "emit_raise"
                   /\ drv'[d].status = "failed"]_vars
    /\ [][\A d \in DOMAIN drv :
            (drv[d].pc = "emit_raise" /\ drv'[d] # drv[d])
                => /\ emitted'[d] = Append(emitted[d],
                                           NodeEvent(d, "NodeRunFailed", "node raised"))
                   /\ drv'[d].err = "node raised"
                   /\ drv'[d].node = drv[d].node
                   /\ IF d = Main
                      THEN /\ drv'[d].pc = "abandoned"
                           /\ run_pc' = "failed_seen"
                           /\ stream' = Append(stream, NodeEvent(d, "NodeRunFailed", "node raised"))
                      ELSE /\ drv'[d].pc = "raise"
                           /\ q'[drv[d].parent] =
                                Append(q[drv[d].parent],
                                       NodeEvent(d, "NodeRunFailed", "node raised"))]_vars
    /\ [][\A d \in DOMAIN drv \ {Main} :
            (drv[d].pc = "raise" /\ drv[d].err = "node raised" /\ drv'[d] # drv[d])
                => /\ emitted[d][Len(emitted[d])] =
                        NodeEvent(d, "NodeRunFailed", "node raised")
                   /\ emitted'[d] = Append(emitted[d],
                        BranchEvent(d, "ParallelBranchRunFailed", "node raised"))
                   /\ q'[drv[d].parent] = Append(q[drv[d].parent],
                        BranchEvent(d, "ParallelBranchRunFailed", "node raised"))]_vars
    /\ [](\A n \in Nodes(graph) :
            LastCall(n) = "raise"
                => /\ \A d \in DOMAIN drv :
                         Cardinality(EventsOf(d, n, "NodeRunFailed")) <= 1
                   /\ (run_pc = "done"
                         => /\ stream[Len(stream)].t = "GraphRunFailed"
                            /\ Cardinality(GraphFailures) = 1))

\* Node w raised inside its branch: the branch produced NodeRunFailed and
\* then ParallelBranchRunFailed, the dispatcher raised with the node's
\* error and the run ended with one GraphRunFailed.
C32_Witness ==
    /\ graph = [kind |-> "halt", len |-> 1]
    /\ LastCall("w") = "raise"
    /\ Len(emitted["w"]) >= 2
    /\ emitted["w"][Len(emitted["w"]) - 1].t = "NodeRunFailed"
    /\ emitted["w"][Len(emitted["w"])].t = "ParallelBranchRunFailed"
    /\ run_pc = "done"
    /\ Cardinality(GraphFailures) = 1
    /\ stream[Len(stream)].t = "GraphRunFailed"


(***************************************************************************)
(* After NodeRunFailed.                                                    *)
(***************************************************************************)
\* The events driver d has produced for nodes it ran itself, in order:
\* those that carry its own parallel_start_node_id.
OwnNodeEvents(d) ==
    SelectSeq(emitted[d],
              LAMBDA ev : ev.s = StartNodeOf(d)
                          /\ ev.t \in {"NodeRunStarted", "NodeRunFailed"})

\* C37: a driver, top-level or of a parallel branch, that has produced
\* NodeRunFailed for a node produces no NodeRunStarted after it.
C37_NoStartAfterFailed ==
    \A d \in DOMAIN drv :
        LET own == OwnNodeEvents(d)
        IN  \A i \in 1..Len(own) : \A j \in 1..Len(own) :
                (i < j /\ own[i].t = "NodeRunFailed") => own[j].t # "NodeRunStarted"


(***************************************************************************)
(* What a failed attempt leaves alone.                                     *)
(***************************************************************************)
\* The positions of a driver between the end of a failed attempt and the
\* event the engine answers it with.
FailedAttempt == {"emit_failed", "emit_stopped", "emit_raise", "emit_retry"}

\* Driver d handles a failed attempt in this step: the attempt ends, or its
\* NodeRunFailed or NodeRunRetry is yielded.
Fails38(d) ==
    \/ drv[d].pc = "run" /\ drv'[d].pc \in FailedAttempt
    \/ drv[d].pc \in FailedAttempt /\ drv'[d] # drv[d]

\* C38: the handling of an attempt that ends in NodeRunFailed, and of a
\* failed attempt that is retried, leaves the variable pool, total_tokens
\* and the handled-exceptions list as they are, also when the failed result
\* carries outputs.
C38_FailedAttemptFrame ==
    [][\A d \in DOMAIN drv :
          Fails38(d) => /\ variable_pool' = variable_pool
                        /\ total_tokens' = total_tokens
                        /\ handle_exceptions' = handle_exceptions]_vars

\* Node w failed twice with a result that carries outputs: it was retried
\* once and ended in NodeRunFailed, and nothing of w is in the pool.
C38_Witness ==
    /\ graph.kind = "halt"
    /\ run_calls["w"] = <<"failed_out", "failed_out">>
    /\ \E d \in DOMAIN drv :
          /\ Cardinality(EventsOf(d, "w", "NodeRunRetry")) = 1
          /\ Cardinality(EventsOf(d, "w", "NodeRunFailed")) = 1
    /\ \A key \in node_id_config_mapping(graph, "w").outputs :
          <<"w", key>> \notin variable_pool
    /\ total_tokens = 0


(***************************************************************************)
(* The pool's counter after a rejected submission.                         *)
(***************************************************************************)
\* C35: submit_count is the number of accepted tasks that are not yet done
\* and never exceeds max_submit_count; a rejected submission leaves it as it
\* was.
C35_CountIsInFlight ==
    /\ submit_count = Cardinality(InFlight)
    /\ submit_count <= max_submit_count


(***************************************************************************)
(* Termination of run().                                                   *)
(***************************************************************************)
\* C36: when every node's run() terminates and no submission is rejected,
\* run() eventually yields a terminal event, also when the branches that
\* wait on nested branches are as many as the pool has workers.
C36_RunTerminates == <>(run_pc = "done")


(***************************************************************************)
(* The step limit under concurrent drivers.                                *)
(***************************************************************************)
\* The NodeRunStarted events of the run, each with the driver that produced
\* it for a node of its own.
StartsOfRun ==
    {dk \in UNION {{<<d, k>> : k \in 1..Len(emitted[d])} : d \in DOMAIN drv} :
        /\ emitted[dk[1]][dk[2]].t = "NodeRunStarted"
        /\ emitted[dk[1]][dk[2]].s = StartNodeOf(dk[1])}

\* C39: a driver starts a node only while node_run_steps is at most
\* max_execution_steps, so that the drivers of a run, top-level and parallel
\* branches together, produce at most max_execution_steps + 1 NodeRunStarted
\* events.
C39_StepBound ==
    /\ Cardinality(StartsOfRun) <= max_execution_steps + 1
    /\ \A d \in DOMAIN drv :
          drv[d].pc = "emit_started" => node_run_steps <= max_execution_steps + 1


(***************************************************************************)
(* What the sub-graph carver keeps.                                        *)
(***************************************************************************)
\* The elements of a sequence.
Range(seq) == {seq[k] : k \in 1..Len(seq)}

\* The ids of the nodes the carver kept.
KeptIds == {node.id : node \in Range(carving.first.nodes)}

\* The nodes the carver kept are the node carving.node_id and the nodes whose
\* data.iteration_id (resp. data.loop_id) is carving.node_id.
KeptNodesAreOwn ==
    Range(carving.first.nodes) =
        {node \in Range(carving.graph_config.nodes) :
            \/ node.id = carving.node_id
            \/ ContainerOf(node, carving.key) = carving.node_id}

PublishOver == publishing.pc \in {"returned", "raised"}

\* C34: _publish puts the message of every event on the queue before it
\* checks anything; it stops listening exactly on a stop, error, message-end,
\* workflow-succeeded, workflow-failed or workflow-partial-success event; and
\* it raises GenerateTaskStoppedError exactly when the publisher is
\* APPLICATION_MANAGER and the task is stopped after the message was put.
C34_Publish ==
    /\ publishing.calls # <<>> =>
          /\ publishing.calls[1] = "put"
          /\ publishing.messages[Len(publishing.messages)] = publishing.event
    /\ PublishOver =>
          /\ ("stop_listen" \in Range(publishing.calls)) <=>
                publishing.event \in
                   {"QueueStopEvent", "QueueErrorEvent", "QueueMessageEndEvent",
                    "QueueWorkflowSucceededEvent", "QueueWorkflowFailedEvent",
                    "QueueWorkflowPartialSuccessEvent"}
          /\ (publishing.pc = "raised") <=>
                (publishing.pub_from = "APPLICATION_MANAGER" /\ publishing.stopped)
          /\ publishing.pc = "raised" =>
                publishing.calls[Len(publishing.calls)] = "raise"

\* The application manager has published a text chunk to a manager whose task
\* was stopped: the chunk is on the queue behind the event published before,
\* the manager still listens, and GenerateTaskStoppedError is raised.
C34_Witness ==
    /\ publishing.pc = "raised"
    /\ publishing.event = "QueueTextChunkEvent"
    /\ publishing.pub_from = "APPLICATION_MANAGER"
    /\ publishing.listening
    /\ publishing.messages = <<"QueueNodeStartedEvent", "QueueTextChunkEvent">>
    /\ publishing.calls = <<"put", "raise">>


(***************************************************************************)
(* The active-request slot of a generation request.                        *)
(***************************************************************************)
\* C40: once rate_limit.enter has succeeded, an exception leaves generate()
\* only after rate_limit.exit(request_id) was called, streaming or not and
\* also when the exception is a RateLimitError turned into
\* InvokeRateLimitError; when not streaming, exit is called before generate()
\* returns as well.
C40_ExitBeforeRaise ==
    /\ (generating.pc = "raised" /\ generating.entered) => generating.exits >= 1
    /\ (generating.pc = "returned" /\ ~generating.streaming) =>
          generating.exits >= 1

====
